---- MODULE Spec2Model ----
(***************************************************************************)
(* GerberViewer.parse_gerber / GerberViewer.parse_drill of 2D3Dgerber.py   *)
(* as a state machine.  One step of the machine is one iteration of the    *)
(* parser's "for line in f" loop, or the start / the end of a call.        *)
(*                                                                         *)
(* Lengths are exact fixed-point integers: one unit is 10^-(MaxDec+1) mm,  *)
(* so that N / 10^D * U (U = 1.0 or 25.4, D <= MaxDec) is an integer.      *)
(* The unit factor is held times ten (10 for mm, 254 for inch).            *)
(*                                                                         *)
(* A text line is held tokenised: its directive kind, its G prefix, its    *)
(* axis tokens and the digit string after its D letter.  The regular       *)
(* expressions of the source are modelled on these tokens.                 *)
(***************************************************************************)
EXTENDS Integers, Sequences, FiniteSets, TLC

\* ---------------------------------------------------------------- bounds
\* Largest decimal-digit count of a format spec the fixed point represents.
MaxDec == 6
\* Lines the caller feeds to the viewer over its life, a scenario stream
\* counting as one line.
MaxLines == 2
\* The step, in degrees, of the angles the arc resolver is applied to.
AngleStep == 15
\* Lines of a netlist file.
MaxIpcLines == 3
\* Items of one extraction whose conversion raises.
MaxFailing == 1

\* ------------------------------------------------------------- constants
\* self.dec_d = 5 in GerberViewer.__init__
DefaultDecD == 5
\* unitfactor = 1.0 (millimetres), held times ten
UnitMM == 10
\* unitfactor = 25.4 (inches), held times ten
UnitIN == 254
\* the heuristic precision of a six-digit drill token
DipTraceDecimals == 4
\* the token length that triggers the heuristic
DipTraceLen == 6
\* the degrees of a full turn: '% 360', '- 360', '+ 360' in _create_arc_path
FullTurn == 360

RECURSIVE Pow10(_)
Pow10(n) == IF n <= 0 THEN 1 ELSE 10 * Pow10(n - 1)

\* mant / 10^frac * unitfactor in fixed point: float(text) * unitfactor and
\* int(num_s) / (10 ** dec_d) * unitfactor
ResolveNoUnit(mant, frac, u10) == mant * UnitMM * Pow10(MaxDec - frac)
Resolve(mant, frac, u10) == mant * u10 * Pow10(MaxDec - frac)

\* a length given in tenths of a millimetre (0.2 is Tenths(2))
Tenths(t) == Resolve(t, 1, UnitMM)

\* QPointF
QPointF(x, y) == <<x, y>>

\* Python's None for current_aperture / current_tool is the empty tuple,
\* a code c is <<c>>.
None == <<>>
Some(c) == <<c>>

\* ----------------------------------------------------------- Gerber lines
FS(i, d) == [kind |-> "FS", fmt |-> <<i, d>>]
MO(u) == [kind |-> "MO", unit |-> u]
AD(code, shape, params) ==
    [kind |-> "AD", code |-> code, shape |-> shape, params |-> params]
Cmd(g, xy, d) == [kind |-> "CMD", g |-> g, xy |-> xy, d |-> d]
Blank == [kind |-> "BLANK"]
Lit(m, f) == [ok |-> TRUE, m |-> m, f |-> f]
BadLit == [ok |-> FALSE, m |-> 0, f |-> 0]
NoXY == [a \in {} |-> 0]

\* int(text) of a digit string
RECURSIVE DigitsToInt(_)
DigitsToInt(ds) ==
    IF ds = <<>> THEN 0
    ELSE 10 * DigitsToInt(SubSeq(ds, 1, Len(ds) - 1)) + ds[Len(ds)]

\* re.search(r'D0?k\*?', line): the digit k right after D, or after D0
DMatches(ds, k) ==
    \/ Len(ds) >= 1 /\ ds[1] = k
    \/ Len(ds) >= 2 /\ ds[1] = 0 /\ ds[2] = k

\* the drawing mode of a line, lines 2337-2340
DrawMode(line) ==
    IF line.d = <<>> THEN "none"
    ELSE IF DMatches(line.d, 3) THEN "flash"
    ELSE IF DMatches(line.d, 2) THEN "move"
    ELSE IF DMatches(line.d, 1) THEN "draw"
    ELSE "none"

\* re.search(r'D0?(\d+)\*?', line) and int(group(1)): one optional zero is
\* skipped, and a lone 0 is the code itself
SelectCode(ds) ==
    IF Len(ds) >= 2 /\ ds[1] = 0 THEN DigitsToInt(Tail(ds)) ELSE DigitsToInt(ds)

\* ------------------------------------------------------------ QPainterPath
\* A path is the sequence of its points; a fresh QPainterPath() is <<>>.
\* isEmpty() is true of a path with no element or a lone MoveTo.
isEmpty(pts) == Len(pts) <= 1
\* moveTo on a path that isEmpty() replaces the lone MoveTo
moveTo(pts, p) == <<p>>
\* lineTo starts a null path at (0,0) and drops a segment of zero length
lineTo(pts, p) ==
    LET base == IF pts = <<>> THEN <<QPointF(0, 0)>> ELSE pts
    IN IF base[Len(base)] = p THEN base ELSE Append(base, p)
\* closeSubpath joins the last point to the first
closeSubpathOpen(pts) == pts
closeSubpath(pts) ==
    IF pts[Len(pts)] = pts[1] THEN pts ELSE Append(pts, pts[1])

\* polygon_path: None (set FALSE) or a QPainterPath object, which is true
\* in a condition whatever it holds
NoPath == [set |-> FALSE, pts |-> <<>>]
NewPath == [set |-> TRUE, pts |-> <<>>]

\* --------------------------------------------------------------- viewer
\* the fields of self that the parsers use, as __init__ leaves them
InitViewer ==
    [dec_d |-> DefaultDecD,
     aperture_macros |-> [c \in {} |-> 0],
     current_pos |-> QPointF(0, 0),
     current_aperture |-> None]

\* the locals of parse_gerber before its loop, and the reset of self
GerberLocals ==
    [items |-> <<>>,
     polygon_mode |-> FALSE,
     polygon_path |-> NoPath,
     interpolation_mode |-> "linear",
     unitfactor |-> UnitMM,
     vals |-> NoXY]

ResetKeepAperture(v) ==
    [v EXCEPT !.aperture_macros = [c \in {} |-> 0],
              !.current_pos = QPointF(0, 0)]
GerberReset(v) ==
    [v EXCEPT !.aperture_macros = [c \in {} |-> 0],
              !.current_pos = QPointF(0, 0),
              !.current_aperture = None]

\* _get_aperture_width: half the first parameter, 0.2 without an aperture
ApertureKnown(v) ==
    /\ v.current_aperture # None
    /\ v.current_aperture[1] # 0
    /\ v.current_aperture[1] \in DOMAIN v.aperture_macros

get_aperture_width_full(v) ==
    IF ~ApertureKnown(v) THEN Tenths(2)
    ELSE LET params == v.aperture_macros[v.current_aperture[1]].params
         IN IF params = <<>> THEN Tenths(2) ELSE params[1]
get_aperture_width(v) ==
    IF ~ApertureKnown(v) THEN Tenths(2)
    ELSE LET params == v.aperture_macros[v.current_aperture[1]].params
         IN IF params = <<>> THEN Tenths(2) ELSE params[1] \div 2

\* _create_arc_path, lines 2444-2446 and 2453-2457: None when the radius is
\* zero, else the arc of the circle about center through start, which
\* begins at start (from) and stops in the direction of end (to) as seen
\* from center
create_arc_path(start, end, center, clockwise) ==
    IF start = center THEN [ok |-> FALSE]
    ELSE [ok |-> TRUE, from |-> start, to |-> end, center |-> center,
          clockwise |-> clockwise]

\* the sweep of _create_arc_path, lines 2449-2452, for the angles angle1 and
\* angle2 of start and end about center, in degrees of [0, 360)
SweepNoWrap(angle1, angle2, clockwise) == angle2 - angle1
Sweep(angle1, angle2, clockwise) ==
    IF clockwise
    THEN (IF angle2 > angle1 THEN angle2 - angle1 - FullTurn
          ELSE angle2 - angle1)
    ELSE (IF angle1 > angle2 THEN angle2 - angle1 + FullTurn
          ELSE angle2 - angle1)

\* path.arcTo(rect, -angle1, -sweep), line 2456: the start angle and the
\* span handed to Qt, and the angle about center at which the arc stops
ArcTo(angle1, angle2, clockwise) ==
    LET sweep == Sweep(angle1, angle2, clockwise)
    IN [angle1 |-> angle1, angle2 |-> angle2, clockwise |-> clockwise,
        done |-> TRUE, sweep |-> sweep,
        startAngle |-> 0 - angle1, sweepLength |-> 0 - sweep,
        endAngle |-> (angle1 + sweep) % FullTurn]
\* an arc request before the resolver ran
ArcRequest(angle1, angle2, clockwise) ==
    [angle1 |-> angle1, angle2 |-> angle2, clockwise |-> clockwise,
     done |-> FALSE, sweep |-> 0, startAngle |-> 0, sweepLength |-> 0,
     endAngle |-> 0]

\* the %FSLA handler, lines 2293-2298
FormatSpec(v, line) ==
    IF Len(line.fmt) = 2 THEN [v EXCEPT !.dec_d = line.fmt[2]] ELSE v

\* the %MO handler, lines 2301-2304
UnitSpec(line) == IF line.unit = "IN" THEN UnitIN ELSE UnitMM

\* the params loop of the %ADD handler, lines 2317-2322
RECURSIVE ParseParams(_, _)
ParseParams(parts, u10) ==
    IF parts = <<>> THEN <<>>
    ELSE LET rest == ParseParams(Tail(parts), u10)
         IN IF Head(parts).ok
            THEN <<Resolve(Head(parts).m, Head(parts).f, u10)>> \o rest
            ELSE rest

\* the %ADD handler, lines 2312-2324; shape "" is a definition the regular
\* expression does not match
ApertureDefineSkipBad(v, l, line) ==
    IF line.shape = "" \/ ParseParams(line.params, l.unitfactor) = <<>> THEN v
    ELSE [v EXCEPT !.aperture_macros =
             (line.code :> [shape |-> line.shape,
                            params |-> ParseParams(line.params, l.unitfactor)])
             @@ v.aperture_macros]
ApertureDefine(v, l, line) ==
    IF line.shape = "" THEN v
    ELSE LET parsed == ParseParams(line.params, l.unitfactor)
             params == IF parsed = <<>> THEN <<Resolve(2, 1, l.unitfactor)>>
                       ELSE parsed
         IN [v EXCEPT !.aperture_macros =
                (line.code :> [shape |-> line.shape, params |-> params])
                @@ v.aperture_macros]

\* aperture selection, lines 2343-2346
ApertureSelectUnchecked(v, line) ==
    IF line.d = <<>> THEN v
    ELSE [v EXCEPT !.current_aperture = Some(SelectCode(line.d))]
ApertureSelect(v, line) ==
    IF line.d = <<>> THEN v
    ELSE IF SelectCode(line.d) \in DOMAIN v.aperture_macros
         THEN [v EXCEPT !.current_aperture = Some(SelectCode(line.d))]
         ELSE v

\* the coordinates of a line, lines 2349-2353
Coordinates(v, l, line) ==
    [a \in DOMAIN line.xy |-> Resolve(line.xy[a], v.dec_d, l.unitfactor)]

\* vals.get(axis, default)
Get(vals, axis, default) == IF axis \in DOMAIN vals THEN vals[axis] ELSE default

\* new_pos, lines 2355-2357
NewPosZero(v, vals) ==
    QPointF(Get(vals, "X", 0), Get(vals, "Y", 0))
NewPos(v, vals) ==
    QPointF(Get(vals, "X", v.current_pos[1]), Get(vals, "Y", v.current_pos[2]))

\* the stroke of a straight segment, lines 2381-2389 (scene_factor is 1.0 in
\* every call of the source).  A segment of zero length gives a path without
\* geometry; it is appended to items all the same.
LineStroke(v, to) ==
    [type |-> "Stroke", from |-> v.current_pos, to |-> to,
     width |-> get_aperture_width(v), arc |-> FALSE]

\* the stroke of an arc, lines 2371-2379
ArcStroke(v, path) ==
    [type |-> "Stroke", from |-> path.from, to |-> path.to,
     width |-> get_aperture_width(v), arc |-> TRUE,
     center |-> path.center, clockwise |-> path.clockwise]

\* the flash branch, lines 2393-2414: the items it appends
Flash(v, p) ==
    IF ~ApertureKnown(v)
    THEN <<[type |-> "Ellipse", x |-> p[1] - Tenths(2) \div 2,
            y |-> p[2] - Tenths(2) \div 2, w |-> Tenths(2), h |-> Tenths(2),
            flip |-> FALSE]>>
    ELSE LET ap == v.aperture_macros[v.current_aperture[1]]
             w == ap.params[1]
             h == IF Len(ap.params) > 1 THEN ap.params[2] ELSE w
         IN IF ap.shape = "C"
            THEN <<[type |-> "Ellipse", x |-> p[1] - w \div 2,
                    y |-> p[2] - w \div 2, w |-> w, h |-> w, flip |-> FALSE]>>
            ELSE IF ap.shape = "R"
            THEN <<[type |-> "Rect", x |-> p[1] - w \div 2,
                    y |-> p[2] - h \div 2, w |-> w, h |-> h, flip |-> FALSE]>>
            ELSE IF ap.shape = "O"
            THEN <<[type |-> "RoundedRect", x |-> p[1] - w \div 2,
                    y |-> p[2] - h \div 2, w |-> w, h |-> h,
                    r |-> (IF w < h THEN w ELSE h) \div 2]>>
            ELSE <<>>

\* the draw branch, lines 2365-2391
DrawArcsInRegion(v, l, vals, new_pos) ==
    IF l.polygon_mode /\ l.polygon_path.set /\ l.interpolation_mode = "linear"
    THEN [l EXCEPT !.polygon_path.pts = lineTo(l.polygon_path.pts, new_pos)]
    ELSE IF l.interpolation_mode \in {"cw_arc", "ccw_arc"}
    THEN LET center == QPointF(v.current_pos[1] + Get(vals, "I", 0),
                               v.current_pos[2] + Get(vals, "J", 0))
             path == create_arc_path(v.current_pos, new_pos, center,
                                     l.interpolation_mode = "cw_arc")
         IN IF path.ok
            THEN [l EXCEPT !.items = Append(l.items, ArcStroke(v, path))]
            ELSE l
    ELSE [l EXCEPT !.items = Append(l.items, LineStroke(v, new_pos))]
Draw(v, l, vals, new_pos) ==
    IF l.polygon_mode /\ l.polygon_path.set
    THEN [l EXCEPT !.polygon_path.pts = lineTo(l.polygon_path.pts, new_pos)]
    ELSE IF l.interpolation_mode \in {"cw_arc", "ccw_arc"}
    THEN LET center == QPointF(v.current_pos[1] + Get(vals, "I", 0),
                               v.current_pos[2] + Get(vals, "J", 0))
             path == create_arc_path(v.current_pos, new_pos, center,
                                     l.interpolation_mode = "cw_arc")
         IN IF path.ok
            THEN [l EXCEPT !.items = Append(l.items, ArcStroke(v, path))]
            ELSE l
    ELSE [l EXCEPT !.items = Append(l.items, LineStroke(v, new_pos))]

\* the move branch, lines 2360-2363
Move(l, new_pos) ==
    IF l.polygon_mode /\ l.polygon_path.set /\ isEmpty(l.polygon_path.pts)
    THEN [l EXCEPT !.polygon_path.pts = moveTo(l.polygon_path.pts, new_pos)]
    ELSE l

\* lines 2336-2415: mode, aperture selection, coordinates, execution
ExecuteDrawKeepsPos(v, l, line) ==
    LET mode == DrawMode(line)
        v1 == ApertureSelect(v, line)
        vals == Coordinates(v1, l, line)
        new_pos == NewPos(v1, vals)
        l1 == [l EXCEPT !.vals = vals]
    IN IF mode = "move"
       THEN [v |-> [v1 EXCEPT !.current_pos = new_pos], l |-> Move(l1, new_pos)]
       ELSE IF mode = "draw"
       THEN [v |-> IF l1.polygon_mode /\ l1.polygon_path.set
                   THEN v1 ELSE [v1 EXCEPT !.current_pos = new_pos],
             l |-> Draw(v1, l1, vals, new_pos)]
       ELSE IF mode = "flash"
       THEN [v |-> [v1 EXCEPT !.current_pos = new_pos],
             l |-> [l1 EXCEPT !.items = l1.items \o Flash(v1, new_pos)]]
       ELSE [v |-> v1, l |-> l1]
Execute(v, l, line) ==
    LET mode == DrawMode(line)
        v1 == ApertureSelect(v, line)
        vals == Coordinates(v1, l, line)
        new_pos == NewPos(v1, vals)
        l1 == [l EXCEPT !.vals = vals]
    IN IF mode = "move"
       THEN [v |-> [v1 EXCEPT !.current_pos = new_pos], l |-> Move(l1, new_pos)]
       ELSE IF mode = "draw"
       THEN [v |-> [v1 EXCEPT !.current_pos = new_pos],
             l |-> Draw(v1, l1, vals, new_pos)]
       ELSE IF mode = "flash"
       THEN [v |-> [v1 EXCEPT !.current_pos = new_pos],
             l |-> [l1 EXCEPT !.items = l1.items \o Flash(v1, new_pos)]]
       ELSE [v |-> v1, l |-> l1]

\* interpolation modes, lines 2307-2309
Interpolation(l, line) ==
    IF line.g = "G01" THEN [l EXCEPT !.interpolation_mode = "linear"]
    ELSE IF line.g = "G02" THEN [l EXCEPT !.interpolation_mode = "cw_arc"]
    ELSE IF line.g = "G03" THEN [l EXCEPT !.interpolation_mode = "ccw_arc"]
    ELSE l

\* polygon mode, lines 2327-2332
Region(l, line) ==
    IF line.g = "G36"
    THEN [l EXCEPT !.polygon_mode = TRUE, !.polygon_path = NewPath]
    ELSE IF line.g = "G37"
    THEN IF l.polygon_path.set /\ ~isEmpty(l.polygon_path.pts)
         THEN [l EXCEPT !.polygon_mode = FALSE,
                        !.polygon_path.pts = closeSubpath(l.polygon_path.pts),
                        !.items = Append(l.items,
                            [type |-> "Region",
                             pts |-> closeSubpath(l.polygon_path.pts)])]
         ELSE [l EXCEPT !.polygon_mode = FALSE]
    ELSE l

\* one iteration of the loop of parse_gerber, lines 2291-2415, on the
\* viewer fields v and the locals l
GerberLine(v, l, line) ==
    IF line.kind = "FS" THEN [v |-> FormatSpec(v, line), l |-> l]
    ELSE IF line.kind = "MO"
    THEN [v |-> v, l |-> [l EXCEPT !.unitfactor = UnitSpec(line)]]
    ELSE IF line.kind = "AD" THEN [v |-> ApertureDefine(v, l, line), l |-> l]
    ELSE IF line.kind = "CMD"
    THEN LET l1 == Region(Interpolation(l, line), line)
         IN IF line.g = "G04" THEN [v |-> v, l |-> l1]
            ELSE Execute(v, l1, line)
    ELSE [v |-> v, l |-> l]

\* the Y flip of the returned items, lines 2417-2429: paths are mapped,
\* graphics items get the transform
FlipPoint(p) == QPointF(p[1], 0 - p[2])
FlipItem(it) ==
    IF it.type = "Stroke"
    THEN IF it.arc
         THEN [it EXCEPT !.from = FlipPoint(it.from), !.to = FlipPoint(it.to),
                         !.center = FlipPoint(it.center)]
         ELSE [it EXCEPT !.from = FlipPoint(it.from), !.to = FlipPoint(it.to)]
    ELSE IF it.type = "Region"
    THEN [it EXCEPT !.pts = [i \in 1..Len(it.pts) |-> FlipPoint(it.pts[i])]]
    ELSE IF it.type = "RoundedRect"
    THEN [it EXCEPT !.y = 0 - (it.y + it.h)]
    ELSE [it EXCEPT !.flip = TRUE]
FlipY(items) == [i \in 1..Len(items) |-> FlipItem(items[i])]

\* what the end of the loop returns, lines 2417-2429: the items appended so
\* far, flipped; polygon_path is not among them unless a G37 appended it
ReturnedWithOpenRegion(l) ==
    IF l.polygon_mode /\ l.polygon_path.set /\ ~isEmpty(l.polygon_path.pts)
    THEN FlipY(Append(l.items, [type |-> "Region",
                                pts |-> closeSubpath(l.polygon_path.pts)]))
    ELSE FlipY(l.items)
Returned(l) == FlipY(l.items)


\* RunGerber: the loop of parse_gerber over the lines of a readable file
RECURSIVE RunGerber(_, _, _)
RunGerber(v, l, lines) ==
    IF lines = <<>> THEN [v |-> v, l |-> l]
    ELSE LET s == GerberLine(v, l, Head(lines))
         IN RunGerber(s.v, s.l, Tail(lines))

\* parse_gerber on a viewer with fields v and a readable file: what it returns
parse_gerber(v, lines) ==
    Returned(RunGerber(GerberReset(v), GerberLocals, lines).l)

\* ------------------------------------------------------------ drill lines
\* ';' comments, M48 and '%' are skipped (line 2488)
DSkip == [kind |-> "SKIP"]
DUnit(u) == [kind |-> "UNIT", unit |-> u]
DMode(g) == [kind |-> "MODE", g |-> g]
DFormat(d) == [kind |-> "FORMAT", d |-> d]
DToolDef(id, dia) == [kind |-> "TDEF", id |-> id, dia |-> dia]
DToolSel(id) == [kind |-> "TSEL", id |-> id]
DCoord(xy) == [kind |-> "XY", xy |-> xy]
DOther == [kind |-> "OTHER"]
\* an axis token: a bare integer "010000" or a decimal "1.5"
Bare(neg, digits) == [dec |-> FALSE, neg |-> neg, int |-> digits, frac |-> <<>>]
Dec(neg, digits, frac) == [dec |-> TRUE, neg |-> neg, int |-> digits, frac |-> frac]

\* the locals of parse_drill before its loop, lines 2465-2480
DrillLocals(v) ==
    [drill_tools |-> [t \in {} |-> 0],
     drill_hits |-> <<>>,
     current_tool |-> None,
     current_pos |-> QPointF(0, 0),
     drill_decimals |-> v.dec_d,
     unitfactor |-> UnitIN,
     incremental_mode |-> FALSE,
     raised |-> FALSE]

\* unit detection, lines 2492-2497
DrillUnit(l, line) ==
    IF line.kind # "UNIT" THEN l
    ELSE IF line.unit = "METRIC" THEN [l EXCEPT !.unitfactor = UnitMM]
    ELSE [l EXCEPT !.unitfactor = UnitIN]

\* coordinate mode, lines 2500-2503
DrillMode(l, line) ==
    IF line.kind # "MODE" THEN l
    ELSE IF line.g = "G90" THEN [l EXCEPT !.incremental_mode = FALSE]
    ELSE [l EXCEPT !.incremental_mode = TRUE]

\* FORMAT=I.D, lines 2510-2514
DrillFormat(l, line) ==
    IF line.kind = "FORMAT" THEN [l EXCEPT !.drill_decimals = line.d] ELSE l

\* tool definition, lines 2517-2521: float() of a malformed diameter raises
ToolDefine(l, line) ==
    IF line.kind # "TDEF" THEN l
    ELSE IF ~line.dia.ok THEN [l EXCEPT !.raised = TRUE]
    ELSE [l EXCEPT !.drill_tools =
             (line.id :> Resolve(line.dia.m, line.dia.f, l.unitfactor))
             @@ l.drill_tools]

\* tool selection, lines 2524-2527
ToolSelect(l, line) ==
    IF line.kind = "TSEL" THEN [l EXCEPT !.current_tool = Some(line.id)] ELSE l

Signed(tok, n) == IF tok.neg THEN 0 - n ELSE n

\* the decimal places of a bare token, lines 2546-2550
TempDecimalsDefault(l, tok) == l.drill_decimals
TempDecimals(l, tok) ==
    IF Len(tok.int) = DipTraceLen THEN DipTraceDecimals ELSE l.drill_decimals

\* the value of an axis token scaled by the unit factor: float(val) or
\* int(val) / 10 ** temp_decimals, times unitfactor (lines 2534, 2553, 2562)
TokenValue(l, tok) ==
    IF tok.dec
    THEN Resolve(Signed(tok, DigitsToInt(tok.int \o tok.frac)), Len(tok.frac),
                 l.unitfactor)
    ELSE Resolve(Signed(tok, DigitsToInt(tok.int)), TempDecimals(l, tok),
                 l.unitfactor)

\* coords, lines 2530-2553: decimal tokens first, bare tokens only when no
\* decimal token was found
DrillCoords(line) ==
    IF line.kind # "XY" THEN NoXY
    ELSE LET decs == {a \in DOMAIN line.xy : line.xy[a].dec}
         IN IF decs # {} THEN [a \in decs |-> line.xy[a]] ELSE line.xy

\* the ellipse of a hit with its Y flip, lines 2578-2589
DrillHitNoFlip(x, y, dia) ==
    [type |-> "Ellipse", x |-> x - dia \div 2, y |-> y - dia \div 2,
     w |-> dia, h |-> dia, flip |-> FALSE]
DrillHit(x, y, dia) ==
    [type |-> "Ellipse", x |-> x - dia \div 2, y |-> y - dia \div 2,
     w |-> dia, h |-> dia, flip |-> TRUE]

\* position update and hit, lines 2555-2589
DrillRecordAnyDiameter(l, line) ==
    LET coords == DrillCoords(line)
        x_move == IF "X" \in DOMAIN coords THEN TokenValue(l, coords["X"]) ELSE 0
        y_move == IF "Y" \in DOMAIN coords THEN TokenValue(l, coords["Y"]) ELSE 0
        x == IF l.incremental_mode THEN l.current_pos[1] + x_move
             ELSE IF "X" \in DOMAIN coords THEN x_move ELSE l.current_pos[1]
        y == IF l.incremental_mode THEN l.current_pos[2] + y_move
             ELSE IF "Y" \in DOMAIN coords THEN y_move ELSE l.current_pos[2]
        l1 == [l EXCEPT !.current_pos = QPointF(x, y)]
    IN IF DOMAIN coords = {} THEN l
       ELSE IF l.current_tool # None /\ l.current_tool[1] \in DOMAIN l.drill_tools
       THEN [l1 EXCEPT !.drill_hits =
                Append(l.drill_hits,
                       DrillHit(x, y, l.drill_tools[l.current_tool[1]]))]
       ELSE l1
DrillRecord(l, line) ==
    LET coords == DrillCoords(line)
        x_move == IF "X" \in DOMAIN coords THEN TokenValue(l, coords["X"]) ELSE 0
        y_move == IF "Y" \in DOMAIN coords THEN TokenValue(l, coords["Y"]) ELSE 0
        x == IF l.incremental_mode THEN l.current_pos[1] + x_move
             ELSE IF "X" \in DOMAIN coords THEN x_move ELSE l.current_pos[1]
        y == IF l.incremental_mode THEN l.current_pos[2] + y_move
             ELSE IF "Y" \in DOMAIN coords THEN y_move ELSE l.current_pos[2]
        l1 == [l EXCEPT !.current_pos = QPointF(x, y)]
    IN IF DOMAIN coords = {} THEN l
       ELSE IF l.current_tool # None /\ l.current_tool[1] \in DOMAIN l.drill_tools
       THEN LET dia == l.drill_tools[l.current_tool[1]]
            IN IF dia > 0
               THEN [l1 EXCEPT !.drill_hits = Append(l.drill_hits, DrillHit(x, y, dia))]
               ELSE l1
       ELSE l1

\* one iteration of the loop of parse_drill, lines 2484-2589
DrillLineHitMoves(l, line) ==
    IF line.kind = "SKIP" THEN l
    ELSE LET l1 == ToolDefine(DrillFormat(DrillMode(DrillUnit(l, line), line), line), line)
             l2 == ToolSelect(l1, line)
             l3 == DrillRecord(l2, line)
         IN IF l1.raised THEN l1
            ELSE IF l3.drill_hits = l2.drill_hits THEN l2 ELSE l3
DrillLine(l, line) ==
    IF line.kind = "SKIP" THEN l
    ELSE LET l1 == ToolDefine(DrillFormat(DrillMode(DrillUnit(l, line), line), line), line)
         IN IF l1.raised THEN l1
            ELSE DrillRecord(ToolSelect(l1, line), line)

\* the loop of parse_drill; an exception ends it
RECURSIVE RunDrill(_, _)
RunDrill(l, lines) ==
    IF lines = <<>> \/ l.raised THEN l
    ELSE RunDrill(DrillLine(l, Head(lines)), Tail(lines))

\* what parse_drill returns for a loop that ended in state l, lines 2598-2602
DrillResult(l) == IF l.raised THEN <<>> ELSE l.drill_hits

\* parse_drill on a viewer with fields v and a readable file: what it returns
parse_drill(v, lines) == DrillResult(RunDrill(DrillLocals(v), lines))


\* ------------------------------------------------------------ the inputs
\* %FSLAX25Y25*% %MOMM*% %ADD10C,0.5*% D10* X1000000Y1000000D02*
\* X2000000Y1000000D01*
ScenarioA ==
    <<FS(2, 5), MO("MM"), AD(10, "C", <<Lit(5, 1)>>), Cmd("", NoXY, <<1, 0>>),
      Cmd("", ("X" :> 1000000) @@ ("Y" :> 1000000), <<0, 2>>),
      Cmd("", ("X" :> 2000000) @@ ("Y" :> 1000000), <<0, 1>>)>>

\* M48 METRIC T01C0.80 T01 X010000Y020000
ScenarioB ==
    <<DSkip, DUnit("METRIC"), DToolDef(1, Lit(80, 2)), DToolSel(1),
      DCoord(("X" :> Bare(FALSE, <<0, 1, 0, 0, 0, 0>>))
             @@ ("Y" :> Bare(FALSE, <<0, 2, 0, 0, 0, 0>>)))>>

\* %FSLAX24Y24*% %MOIN*% %ADD10C,0.5*% %ADD11c,0.5*% %ADD10C,abc*% X2Y1D03*
\* (a definition the expression does not match, then one whose parameter
\* list holds no number)
ScenarioC ==
    <<FS(2, 4), MO("IN"), AD(10, "C", <<Lit(5, 1)>>), AD(11, "", <<Lit(5, 1)>>),
      AD(10, "C", <<BadLit>>),
      Cmd("", ("X" :> 2) @@ ("Y" :> 1), <<0, 3>>)>>

\* G36* X1Y2D02* X1Y2D01* G37*  (a region whose one draw has no length)
ScenarioD ==
    <<Cmd("G36", NoXY, <<>>), Cmd("", ("X" :> 1) @@ ("Y" :> 2), <<0, 2>>),
      Cmd("", ("X" :> 1) @@ ("Y" :> 2), <<0, 1>>), Cmd("G37", NoXY, <<>>)>>

\* %ADD13P,0.5X6*% D13* X2Y1D03*  (a flash of a polygon aperture)
ScenarioE ==
    <<AD(13, "P", <<Lit(5, 1), Lit(6, 0)>>), Cmd("", NoXY, <<1, 3>>),
      Cmd("", ("X" :> 2) @@ ("Y" :> 1), <<0, 3>>)>>

\* %ADD12R,0.3X0.6*% D12* X3D01*  (a draw with a rectangular aperture)
ScenarioF ==
    <<AD(12, "R", <<Lit(3, 1), Lit(6, 1)>>), Cmd("", NoXY, <<1, 2>>),
      Cmd("", ("X" :> 3), <<0, 1>>)>>

\* G36* X1Y2D02* X3D01* G37*  (a region of one move and one draw)
ScenarioH ==
    <<Cmd("G36", NoXY, <<>>), Cmd("", ("X" :> 1) @@ ("Y" :> 2), <<0, 2>>),
      Cmd("", ("X" :> 3), <<0, 1>>), Cmd("G37", NoXY, <<>>)>>

\* scenario A, then G36* X3D01* and the end of the file inside the region
ScenarioI ==
    ScenarioA \o <<Cmd("G36", NoXY, <<>>), Cmd("", ("X" :> 3), <<0, 1>>)>>

GerberScenarios ==
    {ScenarioA, ScenarioC, ScenarioD, ScenarioE, ScenarioF, ScenarioH, ScenarioI}
\* METRIC T04C0 T04 X010000Y020000 T01C0.80 T01 X1.5Y030000
\* (a tool of diameter zero, then a record with one decimal and one bare
\* token)
ScenarioG ==
    <<DUnit("METRIC"), DToolDef(4, Lit(0, 0)), DToolSel(4),
      DCoord(("X" :> Bare(FALSE, <<0, 1, 0, 0, 0, 0>>))
             @@ ("Y" :> Bare(FALSE, <<0, 2, 0, 0, 0, 0>>))),
      DToolDef(1, Lit(80, 2)), DToolSel(1),
      DCoord(("X" :> Dec(FALSE, <<1>>, <<5>>))
             @@ ("Y" :> Bare(FALSE, <<0, 3, 0, 0, 0, 0>>)))>>

\* METRIC G91 X010000Y020000 T01C0.80 T01 X010000Y020000
\* (incremental mode: one record before any tool is defined, one after)
ScenarioJ ==
    <<DUnit("METRIC"), DMode("G91"),
      DCoord(("X" :> Bare(FALSE, <<0, 1, 0, 0, 0, 0>>))
             @@ ("Y" :> Bare(FALSE, <<0, 2, 0, 0, 0, 0>>))),
      DToolDef(1, Lit(80, 2)), DToolSel(1),
      DCoord(("X" :> Bare(FALSE, <<0, 1, 0, 0, 0, 0>>))
             @@ ("Y" :> Bare(FALSE, <<0, 2, 0, 0, 0, 0>>)))>>

DrillScenarios == {ScenarioB, ScenarioG, ScenarioJ}

\* the lines a Gerber file is made of
GerberAlphabet ==
    {FS(2, 4), MO("IN"), MO("MM"),
     AD(10, "C", <<Lit(5, 1)>>),
     AD(12, "R", <<Lit(3, 1), Lit(6, 1)>>),
     Cmd("", NoXY, <<1, 0>>),
     Cmd("", NoXY, <<1, 1>>),
     Cmd("", ("X" :> 1) @@ ("Y" :> 2), <<0, 2>>),
     Cmd("", ("X" :> 3), <<0, 1>>),
     Cmd("", ("Y" :> 4), <<0, 1>>),
     Cmd("", ("X" :> 2) @@ ("Y" :> 1), <<0, 3>>),
     Cmd("G02", ("X" :> 2) @@ ("Y" :> 2) @@ ("I" :> 1) @@ ("J" :> 0), <<0, 1>>),
     Cmd("G01", NoXY, <<>>),
     Cmd("G36", NoXY, <<>>),
     Cmd("G37", NoXY, <<>>),
     Cmd("G04", NoXY, <<1, 0>>),
     Blank}

\* the lines a drill file is made of
DrillAlphabet ==
    {DSkip, DUnit("METRIC"), DUnit("INCH"), DMode("G91"), DMode("G90"),
     DFormat(3),
     DToolDef(1, Lit(4, 1)), DToolDef(2, BadLit),
     DToolSel(1), DToolSel(3),
     DCoord(("X" :> Bare(FALSE, <<1, 2, 3>>)) @@ ("Y" :> Bare(TRUE, <<4, 5>>))),
     DCoord(("X" :> Bare(FALSE, <<0, 0, 0, 1, 0, 0>>))),
     DOther}

IsPrefix(s, t) == Len(s) <= Len(t) /\ s = SubSeq(t, 1, Len(s))
OnScenario(read, scenarios) == \E t \in scenarios : IsPrefix(read, t)
ScenarioLines(scenarios) == UNION {{t[i] : i \in 1..Len(t)} : t \in scenarios}

\* ------------------------------------------------------ IPC-D-356 netlist
\* A line of a netlist file: whether it begins with white space, its
\* white-space separated parts, each a sequence of characters, and the
\* character that follows the first part (" ", "\t" or "\n").
IpcLine(lead, parts, sep) == [lead |-> lead, parts |-> parts, sep |-> sep]

DigitChars == {"0", "1", "2", "3", "4", "5", "6", "7", "8", "9"}
DigitOf(c) ==
    CASE c = "0" -> 0 [] c = "1" -> 1 [] c = "2" -> 2 [] c = "3" -> 3
      [] c = "4" -> 4 [] c = "5" -> 5 [] c = "6" -> 6 [] c = "7" -> 7
      [] c = "8" -> 8 [] c = "9" -> 9

\* float(text) of a run of digit characters
RECURSIVE CharsToInt(_)
CharsToInt(cs) ==
    IF cs = <<>> THEN 0
    ELSE 10 * CharsToInt(SubSeq(cs, 1, Len(cs) - 1)) + DigitOf(cs[Len(cs)])

\* the length of the run of digits of part t that begins at position q
RECURSIVE DigitRun(_, _)
DigitRun(t, q) ==
    IF q <= Len(t) /\ t[q] \in DigitChars THEN 1 + DigitRun(t, q + 1) ELSE 0

\* the group ([+-]?\d+) of coord_regex matched at position p of part t
\* (line 408)
CoordGroup(t, p) ==
    LET signed == p <= Len(t) /\ t[p] \in {"+", "-"}
        q == IF signed THEN p + 1 ELSE p
        n == DigitRun(t, q)
    IN [ok |-> n > 0,
        value |-> IF signed /\ t[p] = "-"
                  THEN 0 - CharsToInt(SubSeq(t, q, q + n - 1))
                  ELSE CharsToInt(SubSeq(t, q, q + n - 1)),
        next |-> q + n]

\* coord_regex matched at position s of part t: X, a group, Y, a group
CoordMatchAt(t, s) ==
    /\ t[s] = "X" /\ CoordGroup(t, s + 1).ok
    /\ LET y == CoordGroup(t, s + 1).next
       IN y <= Len(t) /\ t[y] = "Y" /\ CoordGroup(t, y + 1).ok
CoordGroups(t, s) ==
    <<CoordGroup(t, s + 1).value,
      CoordGroup(t, CoordGroup(t, s + 1).next + 1).value>>

\* coord_regex.search(line), line 417: the leftmost match.  No match spans
\* white space, so it lies in the first part that holds one.
PartMatches(t) == \E s \in 1..Len(t) : CoordMatchAt(t, s)
coord_regex_search(line) ==
    IF \E k \in 1..Len(line.parts) : PartMatches(line.parts[k])
    THEN LET k == CHOOSE k \in 1..Len(line.parts) :
                    /\ PartMatches(line.parts[k])
                    /\ \A j \in 1..(k - 1) : ~PartMatches(line.parts[j])
             t == line.parts[k]
             s == CHOOSE s \in 1..Len(t) :
                    /\ CoordMatchAt(t, s)
                    /\ \A r \in 1..(s - 1) : ~CoordMatchAt(t, r)
         IN Some(CoordGroups(t, s))
    ELSE None

\* line.startswith("P ") or line.startswith("999"), line 411
IpcSkippedProbeOnly(line) ==
    /\ ~line.lead /\ line.parts # <<>>
    /\ line.parts[1] = <<"P">> /\ line.sep = " "
IpcSkipped(line) ==
    /\ ~line.lead /\ line.parts # <<>>
    /\ \/ line.parts[1] = <<"P">> /\ line.sep = " "
       \/ /\ Len(line.parts[1]) >= 3
          /\ SubSeq(line.parts[1], 1, 3) = <<"9", "9", "9">>

\* float(group) / 254, lines 420-421, as a fraction in lowest terms
RECURSIVE CommonDivisor(_, _)
CommonDivisor(a, b) == IF b = 0 THEN a ELSE CommonDivisor(b, a % b)
Over254(n) ==
    LET g == CommonDivisor(254, IF n < 0 THEN 0 - n ELSE n)
    IN [num |-> n \div g, den |-> 254 \div g]

\* one iteration of the loop of parse on nets, lines 410-426
IpcParseLine(nets, line) ==
    IF IpcSkipped(line) THEN nets
    ELSE IF line.parts = <<>> THEN nets
    ELSE LET net_name == line.parts[1]
             match == coord_regex_search(line)
         IN IF match # None
            THEN LET point == <<Over254(match[1][1]), Over254(match[1][2])>>
                 IN IF net_name \in DOMAIN nets
                    THEN [nets EXCEPT ![net_name] = Append(@, point)]
                    ELSE nets @@ (net_name :> <<point>>)
            ELSE nets

\* the lines a netlist file is made of
NetA == <<"N", "1">>
NetB == <<"N", "2">>
IpcAlphabet ==
    {IpcLine(FALSE, <<NetA, <<"X", "2", "5", "4", "Y", "5", "0", "8">>>>, " "),
     IpcLine(FALSE, <<NetA, <<"X", "-", "1", "2", "7", "Y", "+", "0">>>>, " "),
     IpcLine(FALSE, <<NetB, <<"A">>, <<"X", "1", "Y", "2", "X", "3", "Y", "4">>>>,
             "\t"),
     IpcLine(FALSE, <<NetB, <<"X", "1", "2">>>>, " "),
     IpcLine(FALSE, <<<<"P">>, <<"X", "2", "5", "4", "Y", "5", "0", "8">>>>, " "),
     IpcLine(FALSE, <<<<"P">>, <<"X", "2", "5", "4", "Y", "5", "0", "8">>>>, "\t"),
     IpcLine(FALSE, <<<<"9", "9", "9", "A">>, <<"X", "1", "Y", "2">>>>, " "),
     IpcLine(TRUE, <<<<"9", "9", "9">>, <<"X", "1", "Y", "2">>>>, " "),
     IpcLine(FALSE, <<<<"A", "X", "1", "Y", "2">>>>, "\n"),
     IpcLine(FALSE, <<>>, "\n")}

\* ------------------------------------------------- polygons of the items
\* Shapely holds coordinates as floats; here they are thousandths of a
\* millimetre, which every coordinate of the files of OutlineFiles is a
\* multiple of.  A geometry is held by the coordinates of its ring, when it
\* was built from coordinates, and by the cells of a 1 mm lattice whose
\* centre it contains; the outline of a geometry that buffer(0) or
\* unary_union computed is not held.
Milli(x) == x \div Pow10(MaxDec - 2)
CellSide == 1000
\* area > 1e-9 (line 1126), areas being twice their value in square
\* thousandths: 1e-9 mm2 is 0.002 of that unit
AreaEps == 0

Cross(o, a, b) ==
    (a[1] - o[1]) * (b[2] - o[2]) - (a[2] - o[2]) * (b[1] - o[1])
Dot(o, a, b) ==
    (a[1] - o[1]) * (b[1] - o[1]) + (a[2] - o[2]) * (b[2] - o[2])
Between(p, a, b) == Cross(a, b, p) = 0 /\ Dot(p, a, b) <= 0
\* the segments ab and cd have a point in common
SegmentsMeet(a, b, c, d) ==
    \/ /\ (Cross(c, d, a) > 0) # (Cross(c, d, b) > 0)
       /\ (Cross(c, d, a) < 0) # (Cross(c, d, b) < 0)
       /\ (Cross(a, b, c) > 0) # (Cross(a, b, d) > 0)
       /\ (Cross(a, b, c) < 0) # (Cross(a, b, d) < 0)
    \/ Between(a, c, d) \/ Between(b, c, d)
    \/ Between(c, a, b) \/ Between(d, a, b)

\* Polygon.is_valid of the polygon whose shell is the closed ring c, a ring
\* that repeats no vertex but the first: edges that follow one another
\* meet at their common vertex only, no other two edges meet
is_valid(c) ==
    LET n == Len(c) - 1
        Nxt(i) == IF i = n THEN 1 ELSE i + 1
    IN /\ n >= 3
       /\ \A i \in 1..n :
            ~(/\ Cross(c[Nxt(i)], c[i], c[Nxt(i) + 1]) = 0
              /\ Dot(c[Nxt(i)], c[i], c[Nxt(i) + 1]) > 0)
       /\ \A i \in 1..n : \A j \in (i + 1)..n :
            (j # i + 1 /\ ~(i = 1 /\ j = n))
            => ~SegmentsMeet(c[i], c[i + 1], c[j], c[j + 1])

\* twice the signed area of the ring c
RECURSIVE Area2(_)
Area2(c) ==
    IF Len(c) < 2 THEN 0
    ELSE c[1][1] * c[2][2] - c[2][1] * c[1][2] + Area2(Tail(c))

\* the cells whose centre the ring c contains, by the even-odd rule
Contains(c, p) ==
    Cardinality({i \in 1..(Len(c) - 1) :
        \/ c[i][2] <= p[2] /\ p[2] < c[i + 1][2] /\ Cross(c[i], c[i + 1], p) > 0
        \/ c[i + 1][2] <= p[2] /\ p[2] < c[i][2] /\ Cross(c[i], c[i + 1], p) < 0})
      % 2 = 1
Cells(c) ==
    LET Span(v) == (CHOOSE a \in v : \A b \in v : a <= b) ..
                   (CHOOSE a \in v : \A b \in v : a >= b)
        xs == Span({c[i][1] \div CellSide : i \in 1..Len(c)})
        ys == Span({c[i][2] \div CellSide : i \in 1..Len(c)})
    IN {cell \in xs \X ys :
          Contains(c, <<cell[1] * CellSide + CellSide \div 2,
                        cell[2] * CellSide + CellSide \div 2>>)}

\* the pieces of a set of cells: cells that share a side are in one piece
Beside(a, b) ==
    \/ a[1] = b[1] /\ (a[2] - b[2]) \in {0 - 1, 1}
    \/ a[2] = b[2] /\ (a[1] - b[1]) \in {0 - 1, 1}
RECURSIVE Piece(_, _)
Piece(part, cells) ==
    LET more == {c \in cells \ part : \E d \in part : Beside(c, d)}
    IN IF more = {} THEN part ELSE Piece(part \cup more, cells)
Pieces(cells) == {Piece({c}, cells) : c \in cells}

\* Polygon(coords), line 1123, and a geometry that the library computed
Polygon(c) ==
    [type |-> "Polygon", coords |-> c, cells |-> Cells(c), valid |-> is_valid(c)]
Computed(pieces) ==
    [type |-> IF Cardinality(pieces) > 1 THEN "MultiPolygon" ELSE "Polygon",
     coords |-> <<>>, cells |-> UNION pieces, valid |-> TRUE]
is_empty(g) == g.coords = <<>> /\ g.cells = {}
area(g) ==
    IF g.coords # <<>> THEN (IF Area2(g.coords) < 0 THEN 0 - Area2(g.coords)
                             ELSE Area2(g.coords))
    ELSE 2 * CellSide * CellSide * Cardinality(g.cells)

\* poly.buffer(0) of an invalid polygon, line 1125: the library keeps some
\* of the pieces that the ring encloses, all of them, one, or none
buffer0(c) == {Computed(kept) : kept \in SUBSET Pieces(Cells(c))}

\* the closing rule, lines 1120-1121
CloseRingAlways(coords) == Append(coords, coords[1])
CloseRing(coords) ==
    IF coords[1] # coords[Len(coords)] THEN Append(coords, coords[1])
    ELSE coords

\* coords_close_and_fix, lines 1117-1130: what it may return.  Polygon()
\* raises on a ring of fewer than 4 coordinates, which the except turns
\* into None.
coords_close_unfixed(coords) ==
    IF Len(coords) < 3 \/ Len(CloseRing(coords)) < 4 THEN {None}
    ELSE {Some(Polygon(CloseRing(coords)))}
coords_close_and_fix(coords) ==
    IF Len(coords) < 3 THEN {None}
    ELSE IF Len(CloseRing(coords)) < 4 THEN {None}
    ELSE LET poly == Polygon(CloseRing(coords))
             fixed == IF ~poly.valid THEN buffer0(CloseRing(coords))
                      ELSE {poly}
         IN {IF p.valid /\ ~is_empty(p) /\ area(p) > AreaEps
             THEN Some(p) ELSE None : p \in fixed}

\* cos and sin of k * 2 * pi / 24 in thousandths, lines 1148-1149
CosTable == <<1000, 966, 866, 707, 500, 259, 0>>
Cos1000(k) ==
    IF k <= 6 THEN CosTable[k + 1]
    ELSE IF k <= 12 THEN 0 - CosTable[13 - k]
    ELSE IF k <= 18 THEN 0 - CosTable[k - 11]
    ELSE CosTable[25 - k]
Sin1000(k) == Cos1000((k + 18) % 24)
Scaled(r, c) == IF c < 0 THEN 0 - ((r * (0 - c)) \div 1000) ELSE (r * c) \div 1000

\* item.sceneBoundingRect() of an item in a scene, item.rect() of one that
\* is in none, lines 1137-1146 and 1156-1159: rect() is the rectangle the
\* item was built with and leaves the transform of the item out
ItemRect(it, in_scene) ==
    IF in_scene /\ it.flip
    THEN [x |-> Milli(it.x), y |-> 0 - Milli(it.y + it.h),
          w |-> Milli(it.w), h |-> Milli(it.h)]
    ELSE [x |-> Milli(it.x), y |-> Milli(it.y),
          w |-> Milli(it.w), h |-> Milli(it.h)]

\* the coordinate lists of one item, lines 1135-1203.  The outlines of
\* strokes and of obround flashes are curves that the lattice does not
\* hold; the files of OutlineFiles have none.
ItemCoords(it, in_scene) ==
    CASE it.type = "Ellipse" ->
           LET rect == ItemRect(it, in_scene)
               cx == rect.x + rect.w \div 2
               cy == rect.y + rect.h \div 2
           IN <<[k \in 1..24 |->
                   <<cx + Scaled(rect.w \div 2, Cos1000(k - 1)),
                     cy + Scaled(rect.h \div 2, Sin1000(k - 1))>>]>>
      [] it.type = "Rect" ->
           LET rect == ItemRect(it, in_scene)
           IN <<<<<<rect.x, rect.y>>, <<rect.x + rect.w, rect.y>>,
                  <<rect.x + rect.w, rect.y + rect.h>>,
                  <<rect.x, rect.y + rect.h>>, <<rect.x, rect.y>>>>>>
      [] it.type = "Region" ->
           IF Len(it.pts) < 3 THEN <<>>
           ELSE <<[k \in 1..Len(it.pts) |->
                     <<Milli(it.pts[k][1]), Milli(it.pts[k][2])>>]>>

\* unary_union of the valid, non-empty polygons and what is returned of it,
\* lines 1219-1235; when the union raises, the polygons are returned as
\* they are
SeqOf(set) ==
    CHOOSE s \in [1..Cardinality(set) -> set] : {s[i] : i \in DOMAIN s} = set
unary_union(polys, raises) ==
    IF polys = <<>> \/ raises THEN polys
    ELSE LET u == Pieces(UNION {polys[i].cells : i \in
                        {i \in 1..Len(polys) :
                           polys[i].valid /\ ~is_empty(polys[i])}})
         IN IF u = {} THEN <<>>
            ELSE IF Cardinality(u) = 1 THEN <<Computed(u)>>
            ELSE SeqOf({Computed({piece}) :
                          piece \in {q \in u :
                                       area(Computed({q})) > AreaEps}})

\* a request to _extract_polygons_from_items: the items, those whose
\* conversion raises, and whether the items are in a scene
ExtractRequest(items, failing, in_scene) ==
    [items |-> items, failing |-> failing, in_scene |-> in_scene,
     k |-> 1, polys |-> <<>>, pc |-> "loop", result |-> <<>>]

\* the polygons one item adds to polys: one for each of its coordinate
\* lists that coords_close_and_fix returns a polygon for
RECURSIVE PolysOf(_)
PolysOf(lists) ==
    IF lists = <<>> THEN {<<>>}
    ELSE {first \o rest : first \in coords_close_and_fix(Head(lists)),
                          rest \in PolysOf(Tail(lists))}

\* the except of the loop, lines 1215-1217: on to the next item
ItemFailureAborts(e) == [e EXCEPT !.pc = "done", !.result = <<>>]
ItemFailure(e) == [e EXCEPT !.k = e.k + 1]

\* nets = {} at the start of parse, line 407
IpcStart ==
    [read |-> <<>>, nets |-> [n \in {} |-> <<>>], pc |-> "loop",
     result |-> [n \in {} |-> <<>>]]

\* Outline files: their regions and flashes lie on the millimetre lattice.
\* %FSLAX20Y20*% %ADD20R,2X2*% D20* and %ADD21C,2*% D21* head each file.
OutlineHead ==
    <<FS(2, 0), AD(20, "R", <<Lit(2, 0), Lit(2, 0)>>), Cmd("", NoXY, <<2, 0>>)>>
RegionOf(pts) ==
    <<Cmd("G36", NoXY, <<>>),
      Cmd("", ("X" :> pts[1][1]) @@ ("Y" :> pts[1][2]), <<0, 2>>)>>
    \o [k \in 1..(Len(pts) - 1) |->
          Cmd("", ("X" :> pts[k + 1][1]) @@ ("Y" :> pts[k + 1][2]), <<0, 1>>)]
    \o <<Cmd("G37", NoXY, <<>>)>>
FlashAt(x, y) == <<Cmd("", ("X" :> x) @@ ("Y" :> y), <<0, 3>>)>>
OutlineFiles ==
    LET Square == <<<<0, 0>>, <<2, 0>>, <<2, 2>>, <<0, 2>>>>
        \* a ring that crosses itself at (2, 1)
        FigureEight ==
            <<<<0, 1>>, <<3, 1>>, <<3, 3>>, <<2, 3>>, <<2, 0>>, <<0, 0>>>>
        \* a ring without area, and one of two points
        Flat == <<<<0, 0>>, <<2, 0>>, <<1, 0>>>>
        TwoPoints == <<<<1, 2>>, <<3, 2>>>>
    IN {OutlineHead \o RegionOf(Square) \o FlashAt(3, 1),
        OutlineHead \o FlashAt(1, 4) \o RegionOf(FigureEight),
        OutlineHead \o RegionOf(Flat) \o RegionOf(TwoPoints) \o FlashAt(1, 1),
        <<FS(2, 0), AD(21, "C", <<Lit(2, 0)>>), Cmd("", NoXY, <<2, 1>>)>>
          \o FlashAt(1, 1) \o RegionOf(Square),
        OutlineHead \o FlashAt(1, 1) \o FlashAt(4, 1) \o FlashAt(1, 5)}

\* ------------------------------------------------------------- the state
\* dec_d, aperture_macros, current_pos, current_aperture: the fields of the
\* viewer.  call[i]: the activation of a parse call, its locals (g of
\* parse_gerber, d of parse_drill), the lines read so far, the viewer fields
\* it started from and, once it ended, what it returned.  nlines: the lines
\* read off the alphabets so far.
\* arc: a request to the arc resolver taken alone, and its outcome.
\* ipc: a call of IPCParser.parse, the lines read and nets.
\* ext: a call of _extract_polygons_from_items, the index of the item the
\* loop is at and polys.
VARIABLES dec_d, aperture_macros, current_pos, current_aperture, call, nlines,
          arc, ipc, ext

vars ==
    <<dec_d, aperture_macros, current_pos, current_aperture, call, nlines, arc,
      ipc, ext>>

Calls == {1, 2}

Viewer ==
    [dec_d |-> dec_d, aperture_macros |-> aperture_macros,
     current_pos |-> current_pos, current_aperture |-> current_aperture]

SetViewer(v) ==
    /\ dec_d' = v.dec_d
    /\ aperture_macros' = v.aperture_macros
    /\ current_pos' = v.current_pos
    /\ current_aperture' = v.current_aperture

IdleCall ==
    [pc |-> "idle", fn |-> "none", readable |-> TRUE, read |-> <<>>,
     g |-> GerberLocals, d |-> DrillLocals(InitViewer), result |-> <<>>,
     v0 |-> InitViewer]

Init ==
    /\ dec_d = InitViewer.dec_d
    /\ aperture_macros = InitViewer.aperture_macros
    /\ current_pos = InitViewer.current_pos
    /\ current_aperture = InitViewer.current_aperture
    /\ call = [i \in Calls |-> IdleCall]
    /\ nlines = 0
    /\ arc = ArcRequest(0, 0, FALSE)
    /\ ipc = IpcStart
    /\ ext = ExtractRequest(<<>>, {}, FALSE)


Free(i) == call[i].pc \in {"idle", "returned", "raised"}

\* whether the next line may be read, and what it counts: a line of the
\* alphabet counts one, a scenario stream counts one at its first line
\* (scen: scenario streams are among the files)
CanRead(read, line, alphabet, scenarios, scen) ==
    \/ /\ scen /\ OnScenario(Append(read, line), scenarios)
       /\ read # <<>> \/ nlines < MaxLines
    \/ nlines < MaxLines /\ line \in alphabet

Count(read, line, scenarios, scen) ==
    IF scen /\ OnScenario(Append(read, line), scenarios) /\ read # <<>>
    THEN nlines
    ELSE nlines + 1

\* a call of parse_gerber, lines 2280-2290: the reset of self, the locals,
\* then open(); an unreadable file raises out of the call
CallParseGerber(i, readable) ==
    /\ Free(i)
    /\ SetViewer(GerberReset(Viewer))
    /\ call' = [call EXCEPT ![i] =
                  [IdleCall EXCEPT !.pc = IF readable THEN "loop" ELSE "raised",
                                   !.fn = "parse_gerber",
                                   !.readable = readable,
                                   !.v0 = GerberReset(Viewer)]]
    /\ UNCHANGED <<nlines, arc, ipc, ext>>

\* one iteration of the loop of parse_gerber on the next line of the file
GerberReadLine(i, scen) ==
    /\ call[i].pc = "loop" /\ call[i].fn = "parse_gerber"
    /\ \E line \in GerberAlphabet \cup ScenarioLines(GerberScenarios) :
         /\ CanRead(call[i].read, line, GerberAlphabet, GerberScenarios, scen)
         /\ LET s == GerberLine(Viewer, call[i].g, line)
            IN /\ SetViewer(s.v)
               /\ call' = [call EXCEPT ![i].g = s.l,
                                       ![i].read = Append(call[i].read, line)]
         /\ nlines' = Count(call[i].read, line, GerberScenarios, scen)
    /\ UNCHANGED <<arc, ipc, ext>>

\* the end of the file: the Y flip and the return, lines 2417-2429
GerberReturn(i) ==
    /\ call[i].pc = "loop" /\ call[i].fn = "parse_gerber"
    /\ call' = [call EXCEPT ![i].pc = "returned",
                            ![i].result = Returned(call[i].g)]
    /\ UNCHANGED <<dec_d, aperture_macros, current_pos, current_aperture, nlines,
                   arc, ipc, ext>>

\* a call of parse_drill, lines 2464-2483: the locals, then open() inside
\* the try; an unreadable file returns []
CallParseDrill(i, readable) ==
    /\ Free(i)
    /\ call' = [call EXCEPT ![i] =
                  [IdleCall EXCEPT !.pc = IF readable THEN "loop" ELSE "returned",
                                   !.fn = "parse_drill",
                                   !.readable = readable,
                                   !.d = DrillLocals(Viewer),
                                   !.v0 = Viewer]]
    /\ UNCHANGED <<dec_d, aperture_macros, current_pos, current_aperture, nlines,
                   arc, ipc, ext>>

\* one iteration of the loop of parse_drill; an exception ends the call
\* with [] (lines 2598-2600)
DrillReadLine(i, scen) ==
    /\ call[i].pc = "loop" /\ call[i].fn = "parse_drill"
    /\ \E line \in DrillAlphabet \cup ScenarioLines(DrillScenarios) :
         /\ CanRead(call[i].read, line, DrillAlphabet, DrillScenarios, scen)
         /\ LET l == DrillLine(call[i].d, line)
            IN call' = [call EXCEPT ![i].d = l,
                                    ![i].read = Append(call[i].read, line),
                                    ![i].pc = IF l.raised THEN "returned" ELSE "loop",
                                    ![i].result = <<>>]
         /\ nlines' = Count(call[i].read, line, DrillScenarios, scen)
    /\ UNCHANGED <<dec_d, aperture_macros, current_pos, current_aperture, arc,
                   ipc, ext>>

\* the end of the file: return drill_hits, line 2602
DrillReturn(i) ==
    /\ call[i].pc = "loop" /\ call[i].fn = "parse_drill"
    /\ call' = [call EXCEPT ![i].pc = "returned",
                            ![i].result = DrillResult(call[i].d)]
    /\ UNCHANGED <<dec_d, aperture_macros, current_pos, current_aperture, nlines,
                   arc, ipc, ext>>

\* The viewer as the application drives it: one call at a time.
Next ==
    \/ \E readable \in BOOLEAN : CallParseGerber(1, readable)
    \/ GerberReadLine(1, TRUE)
    \/ GerberReturn(1)
    \/ \E readable \in BOOLEAN : CallParseDrill(1, readable)
    \/ DrillReadLine(1, TRUE)
    \/ DrillReturn(1)

Spec == Init /\ [][Next]_vars

\* Two calls of parse_gerber on one viewer whose per-line steps interleave.
ParNext ==
    \E i \in Calls :
        \/ call[i].pc = "idle" /\ CallParseGerber(i, TRUE)
        \/ GerberReadLine(i, FALSE)
        \/ GerberReturn(i)

SpecPar == Init /\ [][ParNext]_vars

\* The arc resolver taken alone: _create_arc_path on the angles of a start
\* and an end point about a centre, in either sense.
Angles == {a \in 0..(FullTurn - 1) : a % AngleStep = 0}

InitArc ==
    /\ dec_d = InitViewer.dec_d
    /\ aperture_macros = InitViewer.aperture_macros
    /\ current_pos = InitViewer.current_pos
    /\ current_aperture = InitViewer.current_aperture
    /\ call = [i \in Calls |-> IdleCall]
    /\ nlines = 0
    /\ \E angle1 \in Angles, angle2 \in Angles, clockwise \in BOOLEAN :
         arc = ArcRequest(angle1, angle2, clockwise)
    /\ ipc = IpcStart
    /\ ext = ExtractRequest(<<>>, {}, FALSE)

CreateArcPath ==
    /\ ~arc.done
    /\ arc' = ArcTo(arc.angle1, arc.angle2, arc.clockwise)
    /\ UNCHANGED <<dec_d, aperture_macros, current_pos, current_aperture, call,
                   nlines, ipc, ext>>

NextArc == CreateArcPath

SpecArc == InitArc /\ [][NextArc]_vars

\* IPCParser.parse taken alone on the lines of a readable netlist file.
IpcReadLine ==
    /\ ipc.pc = "loop" /\ Len(ipc.read) < MaxIpcLines
    /\ \E line \in IpcAlphabet :
         ipc' = [ipc EXCEPT !.read = Append(ipc.read, line),
                            !.nets = IpcParseLine(ipc.nets, line)]
    /\ UNCHANGED <<dec_d, aperture_macros, current_pos, current_aperture, call,
                   nlines, arc, ext>>

\* the end of the file: return nets, line 427
IpcReturn ==
    /\ ipc.pc = "loop"
    /\ ipc' = [ipc EXCEPT !.pc = "returned", !.result = ipc.nets]
    /\ UNCHANGED <<dec_d, aperture_macros, current_pos, current_aperture, call,
                   nlines, arc, ext>>

NextIpc == IpcReadLine \/ IpcReturn

SpecIpc == Init /\ [][NextIpc]_vars

\* _extract_polygons_from_items taken alone on the items that parse_gerber
\* returns for a file of OutlineFiles, before or after they are added to a
\* scene.
InitPoly ==
    /\ dec_d = InitViewer.dec_d
    /\ aperture_macros = InitViewer.aperture_macros
    /\ current_pos = InitViewer.current_pos
    /\ current_aperture = InitViewer.current_aperture
    /\ call = [i \in Calls |-> IdleCall]
    /\ nlines = 0
    /\ arc = ArcRequest(0, 0, FALSE)
    /\ ipc = IpcStart
    /\ \E file \in OutlineFiles, in_scene \in BOOLEAN :
         \E failing \in SUBSET (1..Len(parse_gerber(InitViewer, file))) :
           /\ Cardinality(failing) <= MaxFailing
           /\ ext = ExtractRequest(parse_gerber(InitViewer, file), failing,
                                   in_scene)

\* one iteration of the loop over the items, lines 1132-1217
ExtractItem ==
    /\ ext.pc = "loop" /\ ext.k <= Len(ext.items)
    /\ IF ext.k \in ext.failing
       THEN ext' = ItemFailure(ext)
       ELSE \E new \in PolysOf(ItemCoords(ext.items[ext.k], ext.in_scene)) :
              ext' = [ext EXCEPT !.k = ext.k + 1, !.polys = ext.polys \o new]
    /\ UNCHANGED <<dec_d, aperture_macros, current_pos, current_aperture, call,
                   nlines, arc, ipc>>

\* the union after the loop and the return, lines 1219-1235
ExtractUnion ==
    /\ ext.pc = "loop" /\ ext.k > Len(ext.items)
    /\ \E raises \in BOOLEAN :
         ext' = [ext EXCEPT !.pc = "done",
                            !.result = unary_union(ext.polys, raises)]
    /\ UNCHANGED <<dec_d, aperture_macros, current_pos, current_aperture, call,
                   nlines, arc, ipc>>

NextPoly == ExtractItem \/ ExtractUnion

SpecPoly == InitPoly /\ [][NextPoly]_vars


\* ===================================================================
\* The claims
\* ===================================================================
Last(s) == s[Len(s)]
\* n millimetres
Mm(n) == n * Pow10(MaxDec + 1)
\* the centre of an ellipse or rectangle item in the display frame
Centre(it) ==
    IF it.flip THEN <<it.x + it.w \div 2, 0 - (it.y + it.h \div 2)>>
    ELSE <<it.x + it.w \div 2, it.y + it.h \div 2>>
Ended(c) == c.pc \in {"returned", "raised"}
GerberRunning(c) == c.fn = "parse_gerber" /\ c.pc = "loop"

\* C1: parsing scenario A with parse_gerber returns exactly one primitive,
\* a Stroke from (10.0, -10.0) to (20.0, -10.0) mm whose width is 0.5 mm.
C1_ScenarioA ==
    \A i \in Calls :
        (call[i].fn = "parse_gerber" /\ call[i].pc = "returned"
         /\ call[i].read = ScenarioA)
        => call[i].result =
             <<[type |-> "Stroke", from |-> <<Mm(10), 0 - Mm(10)>>,
                to |-> <<Mm(20), 0 - Mm(10)>>, width |-> Tenths(5),
                arc |-> FALSE]>>

\* C2: parsing scenario B with parse_drill returns exactly one hit,
\* centred at (1.0, -2.0) mm, of diameter 0.8 mm.
C2_ScenarioB ==
    \A i \in Calls :
        (call[i].fn = "parse_drill" /\ call[i].pc = "returned"
         /\ call[i].read = ScenarioB)
        => /\ Len(call[i].result) = 1
           /\ call[i].result[1].type = "Ellipse"
           /\ Centre(call[i].result[1]) = <<Mm(1), 0 - Mm(2)>>
           /\ call[i].result[1].w = Tenths(8)
           /\ call[i].result[1].h = Tenths(8)

\* C2 witness: scenario B was parsed to its end by a viewer whose dec_d an
\* earlier Gerber file had changed.
C2_Witness ==
    /\ call[1].fn = "parse_drill" /\ call[1].pc = "returned"
    /\ call[1].read = ScenarioB
    /\ Len(call[1].result) = 1
    /\ dec_d # DefaultDecD

\* C3: every parse call starts from fresh per-file state: what a call
\* returns for a file is what a freshly constructed viewer, every field at
\* its default, returns for it, whatever files the viewer parsed earlier.
C3_FreshState ==
    \A i \in Calls :
        (call[i].pc = "returned" /\ call[i].readable)
        => call[i].result =
                IF call[i].fn = "parse_gerber"
                THEN parse_gerber(InitViewer, call[i].read)
                ELSE parse_drill(InitViewer, call[i].read)

\* C4: two parse_gerber calls whose per-line steps interleave each return
\* what the call returns when its lines run alone from the state it started in.
C4_Interleaved ==
    \A i \in Calls :
        (call[i].fn = "parse_gerber" /\ call[i].pc = "returned")
        => call[i].result = parse_gerber(call[i].v0, call[i].read)

\* C5: a call on a file that cannot be opened returns an empty result and
\* raises nothing.
C5_Unreadable ==
    \A i \in Calls :
        (Ended(call[i]) /\ ~call[i].readable)
        => call[i].pc = "returned" /\ call[i].result = <<>>

\* C6: a tool definition whose diameter does not parse is skipped: the call
\* returns the hits of the file without that line.
IsBadToolDef(line) == line.kind = "TDEF" /\ ~line.dia.ok
GoodLine(line) == ~IsBadToolDef(line)
C6_LineErrorSkipped ==
    \A i \in Calls :
        (call[i].fn = "parse_drill" /\ call[i].pc = "returned"
         /\ call[i].readable)
        => call[i].result =
             parse_drill(call[i].v0, SelectSeq(call[i].read, GoodLine))

\* the digit count of the most recent format spec of a stream (d0 if none),
\* and ten times the factor of its most recent unit spec (1.0 if none)
RECURSIVE LastFormat(_, _)
LastFormat(read, d0) ==
    IF read = <<>> THEN d0
    ELSE IF Last(read).kind = "FS" /\ Len(Last(read).fmt) = 2
    THEN Last(read).fmt[2]
    ELSE LastFormat(SubSeq(read, 1, Len(read) - 1), d0)
RECURSIVE LastUnit(_)
LastUnit(read) ==
    IF read = <<>> THEN 10
    ELSE IF Last(read).kind = "MO"
    THEN (IF Last(read).unit = "IN" THEN 254 ELSE 10)
    ELSE LastUnit(SubSeq(read, 1, Len(read) - 1))
IsCommand(line) == line.kind = "CMD" /\ line.g # "G04"

\* C7: an X, Y, I or J token N of a command resolves to N / 10^D * U, D the
\* digit count of the most recent format spec and U the factor of the most
\* recent unit spec before the command.
C7_Resolve ==
    \A i \in Calls :
        (call[i].fn = "parse_gerber" /\ call[i].read # <<>>
         /\ IsCommand(Last(call[i].read)))
        => LET line == Last(call[i].read)
               D == LastFormat(call[i].read, call[i].v0.dec_d)
               U10 == LastUnit(call[i].read)
           IN /\ DOMAIN call[i].g.vals = DOMAIN line.xy
              /\ \A a \in DOMAIN line.xy :
                   call[i].g.vals[a] = (line.xy[a] * U10) * Pow10(MaxDec - D)

\* C7 witness: a command with an X token was resolved after a format spec
\* and an inch unit spec.
C7_Witness ==
    /\ GerberRunning(call[1]) /\ Len(call[1].read) >= 3
    /\ IsCommand(Last(call[1].read))
    /\ "X" \in DOMAIN Last(call[1].read).xy
    /\ \E k \in 1..Len(call[1].read) : call[1].read[k].kind = "FS"
    /\ LastUnit(call[1].read) = 254
    /\ call[1].g.vals["X"] # 0

\* a move, draw or flash command: D01, D02, D03
IsOperation(line) ==
    IsCommand(line) /\ line.d \in {<<0, 1>>, <<0, 2>>, <<0, 3>>, <<1>>, <<2>>, <<3>>}
\* call i reads one more line in this step
Reads(i) ==
    /\ GerberRunning(call[i])
    /\ Len(call'[i].read) = Len(call[i].read) + 1

\* C8: a move, draw or flash command that omits the X (or the Y) token
\* leaves that axis of current_pos as it was before the command.
C8_AxisCarry ==
    [][\A i \in Calls :
         (Reads(i) /\ IsOperation(Last(call'[i].read)))
         => LET line == Last(call'[i].read)
            IN /\ "X" \notin DOMAIN line.xy => current_pos'[1] = current_pos[1]
               /\ "Y" \notin DOMAIN line.xy => current_pos'[2] = current_pos[2]]_vars

\* C8 witness: a draw without an X token was executed at a position whose
\* x is not zero.
C8_Witness ==
    /\ GerberRunning(call[1]) /\ call[1].read # <<>>
    /\ IsOperation(Last(call[1].read))
    /\ Last(call[1].read).d = <<0, 1>>
    /\ "X" \notin DOMAIN Last(call[1].read).xy
    /\ current_pos[1] # 0

\* C9: at every step of a parse_gerber run current_aperture is unset or a
\* code of the aperture table.
C9_ApertureInTable ==
    \A i \in Calls :
        (call[i].fn = "parse_gerber" /\ call[i].pc \in {"loop", "returned"})
        => \/ current_aperture = None
           \/ current_aperture[1] \in DOMAIN aperture_macros

\* C9 witness: an aperture is selected during a run.
C9_Witness ==
    /\ GerberRunning(call[1])
    /\ current_aperture # None
    /\ \E k \in 1..Len(call[1].read) :
         call[1].read[k].kind = "CMD" /\ call[1].read[k].d = <<1, 1>>

\* C10: a command carrying the code of a defined aperture sets
\* current_aperture to that code; one carrying a code that is not in the
\* table leaves current_aperture as it was.
C10_Select ==
    [][\A i \in Calls :
         (Reads(i) /\ IsCommand(Last(call'[i].read))
          /\ Last(call'[i].read).d # <<>>)
         => LET code == DigitsToInt(Last(call'[i].read).d)
            IN IF code \in DOMAIN aperture_macros
               THEN current_aperture' = Some(code)
               ELSE current_aperture' = current_aperture]_vars

\* C10 witness: aperture 10 is still selected after a select of the
\* undefined code 11.
C10_Witness ==
    /\ GerberRunning(call[1]) /\ call[1].read # <<>>
    /\ Last(call[1].read) = Cmd("", NoXY, <<1, 1>>)
    /\ current_aperture = Some(10)
    /\ 11 \notin DOMAIN aperture_macros

\* an aperture definition the expression does not match, and one it matches
\* whose parameter list holds no number
ShapeUnparsed(line) == line.kind = "AD" /\ line.shape = ""
ParamsUnparsed(line) ==
    /\ line.kind = "AD" /\ line.shape # ""
    /\ \A k \in 1..Len(line.params) : ~line.params[k].ok

IsDraw(line) == IsCommand(line) /\ line.d \in {<<0, 1>>, <<1>>}
IsRegionEnd(line) == line.kind = "CMD" /\ line.g = "G37"
\* a draw was read after the most recent region start of the stream
DrawSinceStart(read) ==
    \E k \in 1..Len(read) :
        /\ IsDraw(read[k])
        /\ \E s \in 1..(k - 1) :
             /\ read[s].kind = "CMD" /\ read[s].g = "G36"
             /\ \A j \in (s + 1)..Len(read) :
                  ~(read[j].kind = "CMD" /\ read[j].g \in {"G36", "G37"})
\* items2 is items with one closed region appended
EmitsClosedRegion(items, items2) ==
    /\ Len(items2) = Len(items) + 1
    /\ SubSeq(items2, 1, Len(items)) = items
    /\ Last(items2).type = "Region"
    /\ Last(items2).pts[1] = Last(Last(items2).pts)

\* C12 (as stated): the end of an open region emits exactly one region
\* whose ring is closed when at least one draw occurred since the region
\* start, and emits nothing when the region path is empty.
C12_RegionEnd ==
    [][\A i \in Calls :
         (Reads(i) /\ IsRegionEnd(Last(call'[i].read))
          /\ call[i].g.polygon_mode)
         => /\ DrawSinceStart(call[i].read)
               => EmitsClosedRegion(call[i].g.items, call'[i].g.items)
            /\ isEmpty(call[i].g.polygon_path.pts)
               => call'[i].g.items = call[i].g.items]_vars

\* C12 (amended): the end of an open region emits exactly one region whose
\* ring is closed when the region path holds a segment, and emits nothing
\* when the region path is empty (no draw, or only draws to the point the
\* path was already at).
C12_RegionEndSegment ==
    [][\A i \in Calls :
         (Reads(i) /\ IsRegionEnd(Last(call'[i].read))
          /\ call[i].g.polygon_mode)
         => IF isEmpty(call[i].g.polygon_path.pts)
            THEN call'[i].g.items = call[i].g.items
            ELSE EmitsClosedRegion(call[i].g.items, call'[i].g.items)]_vars

\* C12 witness: a region of one move and one draw was ended and its ring
\* of three vertices, first equal to last, is the last item.
C12_Witness ==
    /\ GerberRunning(call[1]) /\ call[1].read = ScenarioH
    /\ call[1].g.items # <<>>
    /\ Last(call[1].g.items).type = "Region"
    /\ Len(Last(call[1].g.items).pts) = 3
    /\ Last(call[1].g.items).pts[1] = Last(call[1].g.items).pts[3]

\* the number of regions among items, and of region ends among lines
NumRegions(items) == Cardinality({k \in 1..Len(items) : items[k].type = "Region"})
NumRegionEnds(read) == Cardinality({k \in 1..Len(read) : IsRegionEnd(read[k])})

\* C13: when the input ends while a region is open, the open region path
\* is not emitted: the returned list holds the primitives emitted before,
\* each flipped, and no more regions than region ends were read.
C13_OpenRegionAtEnd ==
    \A i \in Calls :
        (call[i].fn = "parse_gerber" /\ call[i].pc = "returned"
         /\ call[i].g.polygon_mode)
        => /\ call[i].result = FlipY(call[i].g.items)
           /\ NumRegions(call[i].result) <= NumRegionEnds(call[i].read)

\* C13 witness: scenario A, then a region start and a draw, then the end of
\* the input: the open path holds a segment and the two items emitted
\* before the region start are returned.
C13_Witness ==
    /\ call[1].fn = "parse_gerber" /\ call[1].pc = "returned"
    /\ call[1].read = ScenarioI
    /\ call[1].g.polygon_mode
    /\ ~isEmpty(call[1].g.polygon_path.pts)
    /\ Len(call[1].result) = 2
    /\ NumRegions(call[1].result) = 0

\* a flash command (D03)
IsFlash(line) == IsCommand(line) /\ line.d \in {<<0, 3>>, <<3>>}
\* the centre of an item as parse_gerber appends it, before the flip
ItemCentre(it) == <<it.x + it.w \div 2, it.y + it.h \div 2>>
\* it has the shape and the size of aperture ap
ShapedFrom(it, ap) ==
    LET w == ap.params[1]
        h == IF Len(ap.params) > 1 THEN ap.params[2] ELSE w
    IN /\ ap.shape = "C" => it.type = "Ellipse" /\ it.w = w /\ it.h = w
       /\ ap.shape = "R" => it.type = "Rect" /\ it.w = w /\ it.h = h
       /\ ap.shape = "O" => it.type = "RoundedRect" /\ it.w = w /\ it.h = h

\* C14: every flash command emits exactly one primitive, centred at the
\* position the command resolves to, with the shape and the size of the
\* active aperture; without an active aperture of the table it is a circle
\* of diameter 0.2 mm.
C14_FlashEmitsOne ==
    [][\A i \in Calls :
         (Reads(i) /\ IsFlash(Last(call'[i].read)))
         => LET items == call[i].g.items
                items2 == call'[i].g.items
            IN /\ Len(items2) = Len(items) + 1
               /\ SubSeq(items2, 1, Len(items)) = items
               /\ ItemCentre(Last(items2)) = current_pos'
               /\ IF current_aperture' # None
                     /\ current_aperture'[1] \in DOMAIN aperture_macros'
                  THEN ShapedFrom(Last(items2),
                                  aperture_macros'[current_aperture'[1]])
                  ELSE /\ Last(items2).type = "Ellipse"
                       /\ Last(items2).w = Tenths(2)
                       /\ Last(items2).h = Tenths(2)]_vars

\* the step appends one item to the items of call i
EmitsOne(i) == Len(call'[i].g.items) = Len(call[i].g.items) + 1
\* an aperture of the table is active after the step
ActiveAperture == current_aperture' # None /\ current_aperture'[1] \in DOMAIN aperture_macros'

C17_Sweep ==
    arc.done
    => LET a1 == arc.angle1
           a2 == arc.angle2
       IN /\ arc.clockwise
             => /\ arc.sweep = IF a2 <= a1 THEN a2 - a1 ELSE a2 - a1 - 360
                /\ 0 - 360 < arc.sweep /\ arc.sweep <= 0
          /\ ~arc.clockwise
             => /\ arc.sweep = IF a2 >= a1 THEN a2 - a1 ELSE a2 - a1 + 360
                /\ 0 <= arc.sweep /\ arc.sweep < 360
          /\ (a1 + arc.sweep - a2) % 360 = 0
          /\ arc.endAngle = a2

\* C17 witness: a clockwise arc whose end angle is above its start angle
\* was resolved, and its sweep wrapped to a negative one.
C17_Witness ==
    /\ arc.done /\ arc.clockwise
    /\ arc.angle2 > arc.angle1 /\ arc.angle1 > 0
    /\ arc.sweep = arc.angle2 - arc.angle1 - 360
    /\ arc.sweep < 0

\* call i executes a draw in an arc mode outside a region in this step; the
\* centre of that arc
IsArcDraw(i) ==
    /\ Reads(i) /\ IsDraw(Last(call'[i].read))
    /\ ~call'[i].g.polygon_mode
    /\ call'[i].g.interpolation_mode \in {"cw_arc", "ccw_arc"}
ArcCentre(i) ==
    QPointF(current_pos[1] + Get(call'[i].g.vals, "I", 0),
            current_pos[2] + Get(call'[i].g.vals, "J", 0))

\* C16: an arc draw whose radius is zero (its centre is its start point),
\* or whose start and end points coincide, emits no stroke, and parsing
\* continues.
C16_DegenerateArcSkipped ==
    [][\A i \in Calls :
         (IsArcDraw(i)
          /\ (ArcCentre(i) = current_pos \/ current_pos' = current_pos))
         => /\ call'[i].g.items = call[i].g.items
            /\ GerberRunning(call'[i])]_vars

Abs(n) == IF n < 0 THEN 0 - n ELSE n
Max(a, b) == IF a > b THEN a ELSE b
RECURSIVE GCD(_, _)
GCD(a, b) == IF b = 0 THEN a ELSE GCD(b, a % b)
\* p and q are at the same distance from c.  Lengths that cannot be equal
\* are told apart by their bounds; the others are squared after division by
\* their common divisor.
SameDistance(p, q, c) ==
    LET a == Abs(p[1] - c[1])
        b == Abs(p[2] - c[2])
        x == Abs(q[1] - c[1])
        y == Abs(q[2] - c[2])
        g == Max(1, GCD(GCD(a, b), GCD(x, y)))
    IN IF Max(x, y) > a + b \/ Max(a, b) > x + y THEN FALSE
       ELSE (a \div g) * (a \div g) + (b \div g) * (b \div g)
              = (x \div g) * (x \div g) + (y \div g) * (y \div g)

\* C18: every arc the arc resolver produces starts at the start point of
\* the draw and ends at its end point, the current_pos recorded after the
\* draw.  The arc lies on the circle about the centre through the start
\* point and stops in the direction of the end point, so it ends at the
\* end point exactly when that point is on the circle.
C18_ArcEndpoints ==
    [][\A i \in Calls :
         (IsArcDraw(i) /\ EmitsOne(i))
         => LET it == Last(call'[i].g.items)
            IN /\ it.type = "Stroke" /\ it.arc
               /\ it.from = current_pos
               /\ it.to = current_pos'
               /\ SameDistance(it.from, it.to, it.center)]_vars

\* call i of parse_drill reads one more line in this step, a coordinate
\* record
ReadsRecord(i) ==
    /\ call[i].fn = "parse_drill" /\ call[i].pc = "loop"
    /\ Len(call'[i].read) = Len(call[i].read) + 1
    /\ Last(call'[i].read).kind = "XY"
\* current_tool is an id of the tool table with a positive diameter
ValidTool(l) ==
    /\ l.current_tool # None
    /\ l.current_tool[1] \in DOMAIN l.drill_tools
    /\ l.drill_tools[l.current_tool[1]] > 0

\* C19: a coordinate record processed while current_tool is an id of the
\* tool table with a positive diameter emits exactly one hit, of the
\* diameter stored for current_tool; a record processed while no tool is
\* selected, the selected id is undefined or its diameter is not positive
\* emits none.
C19_OneHitPerRecord ==
    [][\A i \in Calls :
         ReadsRecord(i)
         => LET l == call[i].d
                hits == call[i].d.drill_hits
                hits2 == call'[i].d.drill_hits
            IN IF ValidTool(l)
               THEN /\ Len(hits2) = Len(hits) + 1
                    /\ SubSeq(hits2, 1, Len(hits)) = hits
                    /\ Last(hits2).w = l.drill_tools[l.current_tool[1]]
                    /\ Last(hits2).h = l.drill_tools[l.current_tool[1]]
               ELSE hits2 = hits]_vars

\* C19 witness: in scenario G the record read with the selected tool 4 of
\* diameter zero emitted nothing, and the record read with tool 1 emitted
\* the one hit, of diameter 0.8 mm.
C19_Witness ==
    /\ call[1].fn = "parse_drill" /\ call[1].pc = "loop"
    /\ call[1].read = ScenarioG
    /\ call[1].d.drill_tools[4] = 0
    /\ Len(call[1].d.drill_hits) = 1
    /\ call[1].d.drill_hits[1].w = Tenths(8)

\* C20: in absolute mode a coordinate record sets each axis present in the
\* record to its resolved value times the unit factor and leaves an absent
\* axis as it was; in incremental mode it adds the scaled value of each
\* present axis to the position, an absent axis adding nothing.
C20_PositionUpdate ==
    [][\A i \in Calls :
         ReadsRecord(i)
         => LET l == call[i].d
                xy == Last(call'[i].read).xy
                pos == call[i].d.current_pos
                pos2 == call'[i].d.current_pos
                Index(a) == IF a = "X" THEN 1 ELSE 2
            IN \A a \in {"X", "Y"} :
                 IF l.incremental_mode
                 THEN pos2[Index(a)]
                        = pos[Index(a)]
                          + (IF a \in DOMAIN xy THEN TokenValue(l, xy[a]) ELSE 0)
                 ELSE pos2[Index(a)]
                        = (IF a \in DOMAIN xy THEN TokenValue(l, xy[a])
                           ELSE pos[Index(a)])]_vars

\* a FORMAT declaration was read; every token of a record is a bare integer
FormatSeen(read) == \E k \in 1..Len(read) : read[k].kind = "FORMAT"
AllBare(xy) == \A a \in DOMAIN xy : ~xy[a].dec
AxisIndex(a) == IF a = "X" THEN 1 ELSE 2
\* the step moves axis a of the drill position of call i to, or by, value
MovesAxis(i, a, value) ==
    IF call[i].d.incremental_mode
    THEN call'[i].d.current_pos[AxisIndex(a)]
           = call[i].d.current_pos[AxisIndex(a)] + value
    ELSE call'[i].d.current_pos[AxisIndex(a)] = value

\* C21: with no FORMAT declaration seen, a bare integer token of exactly
\* six digits (sign excluded) resolves as token / 10^4 times the unit
\* factor, whatever the default decimal-place count is.
C21_SixDigits ==
    [][\A i \in Calls :
         (ReadsRecord(i) /\ ~FormatSeen(call[i].read)
          /\ AllBare(Last(call'[i].read).xy))
         => LET xy == Last(call'[i].read).xy
            IN \A a \in DOMAIN xy :
                 Len(xy[a].int) = 6
                 => MovesAxis(i, a,
                              Signed(xy[a], DigitsToInt(xy[a].int))
                              * call[i].d.unitfactor * Pow10(MaxDec - 4))]_vars

\* C21 witness: scenario B was read with the default of 5 decimal places
\* and no FORMAT line, and its token 010000 put x at 1.0 mm.
C21_Witness ==
    /\ call[1].fn = "parse_drill" /\ call[1].pc = "loop"
    /\ call[1].read = ScenarioB
    /\ call[1].d.drill_decimals = 5
    /\ call[1].d.current_pos = QPointF(Mm(1), Mm(2))


\* C22: once FORMAT=I.D has been declared, every later bare integer token,
\* of any length, resolves as token / 10^D times the unit factor.
C22_FormatOverrides ==
    [][\A i \in Calls :
         (ReadsRecord(i) /\ FormatSeen(call[i].read)
          /\ AllBare(Last(call'[i].read).xy))
         => LET xy == Last(call'[i].read).xy
            IN \A a \in DOMAIN xy :
                 MovesAxis(i, a,
                           Signed(xy[a], DigitsToInt(xy[a].int))
                           * call[i].d.unitfactor
                           * Pow10(MaxDec - call[i].d.drill_decimals))]_vars


\* the text of a netlist line begins with the marker "P " or "999"
BeginsWithMarker(line) ==
    /\ ~line.lead /\ Len(line.parts) > 0
    /\ LET first == line.parts[1]
       IN \/ first = <<"P">> /\ line.sep = " "
          \/ Len(first) >= 3 /\ first[1] = "9" /\ first[2] = "9" /\ first[3] = "9"
\* the line gives a point: no marker, not blank, a coordinate match
GivesPoint(line) ==
    /\ ~BeginsWithMarker(line) /\ Len(line.parts) > 0
    /\ coord_regex_search(line) # None
\* the positions, in file order, of the lines of read that give a point to
\* the net of name n
PointLines(read, n) ==
    {k \in 1..Len(read) : GivesPoint(read[k]) /\ read[k].parts[1] = n}
NthOf(set, j) == CHOOSE k \in set : Cardinality({m \in set : m <= k}) = j
\* v is the fraction x / 254
Is254th(v, x) == v.den > 0 /\ v.num * 254 = x * v.den

\* C27: IPCParser.parse returns a mapping from the net name, the first
\* white-space separated token of a line, to the list, in file order, of
\* (x/254, y/254) for each line with an X<int>Y<int> match; lines that
\* begin with "P " or "999", blank lines and lines without a match add no
\* entry and no point.
C27_Nets ==
    ipc.pc = "returned"
    => /\ DOMAIN ipc.result
            = {ipc.read[k].parts[1] :
                 k \in {k \in 1..Len(ipc.read) : GivesPoint(ipc.read[k])}}
       /\ \A n \in DOMAIN ipc.result :
            /\ Len(ipc.result[n]) = Cardinality(PointLines(ipc.read, n))
            /\ \A j \in 1..Len(ipc.result[n]) :
                 LET xy == coord_regex_search(
                             ipc.read[NthOf(PointLines(ipc.read, n), j)])[1]
                 IN /\ Is254th(ipc.result[n][j][1], xy[1])
                    /\ Is254th(ipc.result[n][j][2], xy[2])

\* C27 witness: a net line, a probe record with coordinates and a second
\* line of the same net were read; the net has the two points (1, 2) and
\* (-1/2, 0) in that order and the probe record left no entry.
C27_Witness ==
    /\ ipc.pc = "returned" /\ Len(ipc.read) = 3
    /\ ipc.read[2].parts # <<>>
    /\ ipc.read[2].parts[1] = <<"P">> /\ ipc.read[2].sep = " "
    /\ DOMAIN ipc.result = {NetA}
    /\ ipc.result[NetA]
         = <<<<[num |-> 1, den |-> 1], [num |-> 2, den |-> 1]>>,
             <<[num |-> 0 - 1, den |-> 2], [num |-> 0, den |-> 1]>>>>


\* the extraction converts item k and the conversion does not raise
Converts ==
    /\ ext.pc = "loop" /\ ext.k <= Len(ext.items) /\ ext.k \notin ext.failing
    /\ ext'.k = ext.k + 1
\* the list cl with its first vertex appended when first and last differ
Closed(cl) == IF cl[1] # cl[Len(cl)] THEN cl \o <<cl[1]>> ELSE cl

\* C23: for a vertex list of at least 3 vertices the polygonizer appends
\* the first vertex exactly when first and last differ, so the ring it
\* builds is closed; applied again to that closed, valid ring it returns
\* the same vertex sequence with nothing appended.
C23_ClosingRule ==
    [][(Converts /\ ItemCoords(ext.items[ext.k], ext.in_scene) # <<>>)
       => LET cl == ItemCoords(ext.items[ext.k], ext.in_scene)[1]
          IN (Len(cl) >= 3 /\ is_valid(Closed(cl)))
             => /\ ext'.polys = Append(ext.polys, Polygon(Closed(cl)))
                /\ Closed(cl)[1] = Closed(cl)[Len(Closed(cl))]
                /\ coords_close_and_fix(Closed(cl))
                     = {Some(Polygon(Closed(cl)))}]_vars

\* C23 witness: the 24 samples of a round flash got the first sample
\* appended, and the closed ring of a region after it got nothing.
C23_Witness ==
    /\ Len(ext.items) = 2 /\ ext.k = 3 /\ ext.failing = {}
    /\ ext.items[1].type = "Ellipse" /\ ext.items[2].type = "Region"
    /\ Len(ext.polys) = 2
    /\ Len(ext.polys[1].coords) = 25
    /\ ext.polys[1].coords[25] = ext.polys[1].coords[1]
    /\ Len(ext.polys[2].coords) = Len(ext.items[2].pts)


\* the polygon of item j of the extraction, when the item has one
\* coordinate list and the list closes to a valid ring
HasPolygon(j) ==
    /\ ItemCoords(ext.items[j], ext.in_scene) # <<>>
    /\ Len(ItemCoords(ext.items[j], ext.in_scene)[1]) >= 3
    /\ is_valid(Closed(ItemCoords(ext.items[j], ext.in_scene)[1]))
PolygonOf(j) == Polygon(Closed(ItemCoords(ext.items[j], ext.in_scene)[1]))
\* the cells that the returned polygons cover
Covered == UNION {ext.result[i].cells : i \in 1..Len(ext.result)}

\* C24: a conversion failure on one item is skipped and never aborts the
\* extraction: the loop reaches every item, the polygon of every item that
\* does not fail, before and after a failing one, is produced, and what is
\* returned covers it.
C24_FailureSkipped ==
    /\ \A j \in 1..(ext.k - 1) :
         (j \notin ext.failing /\ HasPolygon(j))
         => \E i \in 1..Len(ext.polys) : ext.polys[i] = PolygonOf(j)
    /\ ext.pc = "done"
       => /\ ext.k = Len(ext.items) + 1
          /\ \A j \in 1..Len(ext.items) :
               (j \notin ext.failing /\ HasPolygon(j))
               => PolygonOf(j).cells \subseteq Covered

\* C24 witness: of three flashes the second failed; the polygons of the
\* first and of the third were returned.
C24_Witness ==
    /\ ext.pc = "done" /\ Len(ext.items) = 3 /\ ext.failing = {2}
    /\ HasPolygon(1) /\ HasPolygon(3)
    /\ Len(ext.result) = 2
    /\ Covered = PolygonOf(1).cells \cup PolygonOf(3).cells
    /\ PolygonOf(2).cells # {} /\ PolygonOf(2).cells \cap Covered = {}


\* the point c lies in the rectangle of the flash item it, in the Y-flipped
\* display frame
InDisplayRect(c, it) ==
    /\ Milli(it.x) <= c[1] /\ c[1] <= Milli(it.x + it.w)
    /\ 0 - Milli(it.y + it.h) <= c[2] /\ c[2] <= 0 - Milli(it.y)

\* C25: every polygon extracted from the items that parse_gerber returns
\* lies in the Y-flipped display frame: the polygon of a flash is at the
\* item's flipped position, as the polygon of a region is at its flipped
\* vertices, whether the items are in a scene or not.
C25_OneFrame ==
    \A j \in 1..(ext.k - 1) :
      (j \notin ext.failing /\ HasPolygon(j))
      => LET it == ext.items[j]
             ring == PolygonOf(j).coords
         IN /\ \E i \in 1..Len(ext.polys) : ext.polys[i].coords = ring
            /\ it.type \in {"Ellipse", "Rect"}
               => \A n \in 1..Len(ring) : InDisplayRect(ring[n], it)
            /\ it.type = "Region"
               => ring = [n \in 1..Len(it.pts) |->
                            <<Milli(it.pts[n][1]), Milli(it.pts[n][2])>>]


\* C26: every polygon returned by the extraction is valid and has an area
\* above the threshold; the ring of a region that crosses itself is never
\* returned as it is: it is split into valid pieces or discarded.
C26_ValidPolygons ==
    ext.pc = "done"
    => /\ \A i \in 1..Len(ext.result) :
            /\ ext.result[i].valid /\ ~is_empty(ext.result[i])
            /\ area(ext.result[i]) > AreaEps
       /\ \A j \in 1..Len(ext.items) :
            (ItemCoords(ext.items[j], ext.in_scene) # <<>>
             /\ ~is_valid(Closed(ItemCoords(ext.items[j], ext.in_scene)[1])))
            => \A i \in 1..Len(ext.result) :
                 ext.result[i].coords
                   # Closed(ItemCoords(ext.items[j], ext.in_scene)[1])

\* C26 witness: the ring of the second item crosses itself; its two halves
\* and the flash before it were returned as three valid polygons.
C26_Witness ==
    /\ ext.pc = "done" /\ Len(ext.items) = 2 /\ ext.failing = {}
    /\ ext.items[2].type = "Region"
    /\ ~is_valid(ItemCoords(ext.items[2], ext.in_scene)[1])
    /\ Len(ext.result) = 3
    /\ \A i \in 1..3 : ext.result[i].valid /\ area(ext.result[i]) > AreaEps
    /\ Cells(ItemCoords(ext.items[2], ext.in_scene)[1]) \subseteq Covered


\* the point a command of call i resolves to: each axis with a token at
\* its resolved value, each axis without one where the position was
Target(i) ==
    LET line == Last(call'[i].read)
        At(a, old) == IF a \in DOMAIN line.xy
                      THEN Resolve(line.xy[a], dec_d, call[i].g.unitfactor)
                      ELSE old
    IN QPointF(At("X", current_pos[1]), At("Y", current_pos[2]))

\* C28: every draw command sets current_pos to the point the command
\* resolves to, whatever branch it takes: inside a region, as a linear
\* stroke, as an arc stroke, and as an arc that is skipped as degenerate.
C28_DrawSetsPosition ==
    [][\A i \in Calls :
         (Reads(i) /\ IsDraw(Last(call'[i].read)))
         => current_pos' = Target(i)]_vars

\* C28 witness: in clockwise mode a draw to x = 3 without I and J, an arc
\* of radius zero, added no stroke to the one of the arc before it and
\* left the position at x = 3.
C28_Witness ==
    /\ GerberRunning(call[1]) /\ Len(call[1].read) = 2
    /\ call[1].read[1].kind = "CMD" /\ call[1].read[1].g = "G02"
    /\ call[1].read[2] = Cmd("", ("X" :> 3), <<0, 1>>)
    /\ call[1].g.interpolation_mode = "cw_arc"
    /\ call[1].g.items
         = RunGerber(call[1].v0, GerberLocals, <<call[1].read[1]>>).l.items
    /\ current_pos[1] = Resolve(3, dec_d, call[1].g.unitfactor)
    /\ current_pos[1] # RunGerber(call[1].v0, GerberLocals,
                                  <<call[1].read[1]>>).v.current_pos[1]


\* call i executes a draw inside an open region in this step
IsRegionDraw(i) ==
    /\ Reads(i) /\ IsDraw(Last(call'[i].read))
    /\ call[i].g.polygon_mode /\ call'[i].g.polygon_mode
\* the point the region path of call i is at: its last point, the origin
\* for a path without a point
PathEnd(i) ==
    IF call[i].g.polygon_path.pts = <<>> THEN QPointF(0, 0)
    ELSE Last(call[i].g.polygon_path.pts)
\* the step appends one segment to the region path of call i, ending at p
AppendsSegment(i, p) ==
    LET pts == call[i].g.polygon_path.pts
        pts2 == call'[i].g.polygon_path.pts
    IN /\ Len(pts2) >= 2 /\ Last(pts2) = p
       /\ pts2[Len(pts2) - 1] = PathEnd(i)
       /\ pts # <<>> => SubSeq(pts2, 1, Len(pts2) - 1) = pts

\* C29 (as stated): while a region is open a draw command emits no stroke
\* and appends one straight segment to the region path, in the arc modes
\* as in the linear mode.
C29_RegionDraw ==
    [][\A i \in Calls :
         IsRegionDraw(i)
         => /\ call'[i].g.items = call[i].g.items
            /\ AppendsSegment(i, Target(i))]_vars

\* C29 (amended): while a region is open a draw command emits no stroke
\* and, in the arc modes as in the linear mode, appends one straight
\* segment from the point the region path is at to the target of the
\* command; a draw to the point the path is at adds no segment.
C29_RegionDrawSegment ==
    [][\A i \in Calls :
         IsRegionDraw(i)
         => /\ call'[i].g.items = call[i].g.items
            /\ IF Target(i) = PathEnd(i)
               THEN call'[i].g.polygon_path.pts
                      = (IF call[i].g.polygon_path.pts = <<>>
                         THEN <<PathEnd(i)>> ELSE call[i].g.polygon_path.pts)
               ELSE AppendsSegment(i, Target(i))]_vars

\* C29 witness: in a region, a draw in clockwise mode with I and J put the
\* straight segment to its target on the region path and added no stroke.
C29_Witness ==
    /\ GerberRunning(call[1]) /\ Len(call[1].read) = 2
    /\ call[1].read[1] = Cmd("G36", NoXY, <<>>)
    /\ IsDraw(call[1].read[2]) /\ "I" \in DOMAIN call[1].read[2].xy
    /\ call[1].g.polygon_mode /\ call[1].g.interpolation_mode = "cw_arc"
    /\ call[1].g.items = <<>>
    /\ Len(call[1].g.polygon_path.pts) = 2
    /\ Last(call[1].g.polygon_path.pts) = current_pos
    /\ current_pos # QPointF(0, 0)


\* an aperture-select command: Dnn* with nn >= 10 and no coordinates
IsSelect(line) ==
    /\ IsCommand(line) /\ line.g = "" /\ line.xy = NoXY
    /\ Len(line.d) >= 2 /\ line.d[1] # 0

\* C30: an aperture-select command changes at most current_aperture: it
\* emits no primitive, leaves current_pos as it was and adds nothing to an
\* open region path.
C30_SelectFrame ==
    [][\A i \in Calls :
         (Reads(i) /\ IsSelect(Last(call'[i].read)))
         => /\ call'[i].g.items = call[i].g.items
            /\ current_pos' = current_pos
            /\ call'[i].g.polygon_path = call[i].g.polygon_path]_vars


\* C31: each region path is emitted at most once: a region end that no
\* region start precedes since the region end before it (two region ends
\* in a row) emits no region.
C31_RegionOnce ==
    [][\A i \in Calls :
         (Reads(i) /\ IsRegionEnd(Last(call'[i].read))
          /\ ~call[i].g.polygon_mode)
         => call'[i].g.items = call[i].g.items]_vars


\* a move command (D02)
IsMove(line) == IsCommand(line) /\ line.d \in {<<0, 2>>, <<2>>}
\* the last region start of read, and the first draw after position s
LastStart(read) ==
    CHOOSE s \in 1..Len(read) :
        /\ read[s].kind = "CMD" /\ read[s].g = "G36"
        /\ \A j \in (s + 1)..Len(read) : ~(read[j].kind = "CMD" /\ read[j].g = "G36")
FirstDrawAfter(read, s) ==
    CHOOSE k \in (s + 1)..Len(read) :
        IsDraw(read[k]) /\ \A j \in (s + 1)..(k - 1) : ~IsDraw(read[j])
\* current_pos once call i has executed the first n lines of read
PositionAfter(i, n) ==
    RunGerber(call[i].v0, GerberLocals, SubSeq(call[i].read, 1, n)).v.current_pos
\* where the region that call i has open began: at the last move between
\* its start and its first draw or, without such a move, where the
\* position was when the first draw was executed
RegionOrigin(i) ==
    LET read == call[i].read
        s == LastStart(read)
        k == FirstDrawAfter(read, s)
        moves == {m \in (s + 1)..(k - 1) : IsMove(read[m])}
    IN IF moves = {} THEN PositionAfter(i, k - 1)
       ELSE PositionAfter(i, CHOOSE m \in moves : \A n \in moves : n <= m)

\* C32: the first vertex of an emitted region is the position of the move
\* that began the region path or, when no move occurred between the region
\* start and the first draw, the position held when that first draw was
\* executed.
C32_FirstVertex ==
    [][\A i \in Calls :
         (Reads(i) /\ IsRegionEnd(Last(call'[i].read))
          /\ call[i].g.polygon_mode /\ DrawSinceStart(call[i].read)
          /\ EmitsOne(i))
         => Last(call'[i].g.items).pts[1] = RegionOrigin(i)]_vars


\* the lines of read with its unit specs moved to the front
NotUnit(line) == line.kind # "MO"
IsUnit(line) == line.kind = "MO"
UnitsFirst(read) == SelectSeq(read, IsUnit) \o SelectSeq(read, NotUnit)

\* C33: what parse_gerber builds is in millimetres whatever the order of
\* the directives: an inch file whose commands all follow its unit spec
\* gives the same aperture sizes and the same items whether the unit spec
\* comes before or after its aperture definitions.
C33_UnitOrder ==
    \A i \in Calls :
        (GerberRunning(call[i])
         /\ Len(SelectSeq(call[i].read, IsUnit)) = 1
         /\ SelectSeq(call[i].read, IsUnit)[1].unit = "IN"
         /\ \A k \in 1..Len(call[i].read) :
              call[i].read[k].kind = "CMD"
              => \E u \in 1..(k - 1) : IsUnit(call[i].read[u]))
        => LET first == RunGerber(call[i].v0, GerberLocals,
                                  UnitsFirst(call[i].read))
           IN /\ aperture_macros = first.v.aperture_macros
              /\ call[i].g.items = first.l.items


\* a record with one axis written with a decimal point and the other as a
\* bare integer
MixedRecord(xy) ==
    /\ DOMAIN xy = {"X", "Y"}
    /\ xy["X"].dec # xy["Y"].dec

\* C34: every axis token present in a coordinate record is applied to the
\* position: when one axis is written with an explicit decimal point and
\* the other as a bare integer in the same record, both axes are moved to
\* (in incremental mode, by) their resolved values.
C34_MixedRecord ==
    [][\A i \in Calls :
         (ReadsRecord(i) /\ MixedRecord(Last(call'[i].read).xy))
         => \A a \in {"X", "Y"} :
              MovesAxis(i, a, TokenValue(call[i].d, Last(call'[i].read).xy[a]))]_vars


\* C35: a coordinate record updates the position whether or not it emits
\* a hit: each axis token the record applies moves the position to (in
\* incremental mode, by) its value also when no valid tool is selected,
\* and a hit that is emitted is centred on the position so reached, which
\* in incremental mode is the sum of all earlier records.
C35_MovesWithoutHit ==
    [][\A i \in Calls :
         ReadsRecord(i)
         => LET l == call[i].d
                coords == DrillCoords(Last(call'[i].read))
                hits == call[i].d.drill_hits
                hits2 == call'[i].d.drill_hits
                pos2 == call'[i].d.current_pos
            IN /\ \A a \in DOMAIN coords :
                    MovesAxis(i, a, TokenValue(l, coords[a]))
               /\ ~ValidTool(l) => hits2 = hits
               /\ hits2 # hits
                    => Centre(Last(hits2)) = <<pos2[1], 0 - pos2[2]>>]_vars

\* C35 witness: in scenario J the record read in incremental mode before
\* any tool was defined emitted nothing and moved the position to (1, 2)
\* mm, and the same record read again with tool 1 selected emitted the one
\* hit at (2, 4) mm.
C35_Witness ==
    /\ call[1].fn = "parse_drill" /\ call[1].pc = "loop"
    /\ call[1].read = ScenarioJ
    /\ call[1].d.incremental_mode
    /\ call[1].d.current_pos = <<Mm(2), Mm(4)>>
    /\ Len(call[1].d.drill_hits) = 1
    /\ Centre(call[1].d.drill_hits[1]) = <<Mm(2), 0 - Mm(4)>>

====
